---- MODULE Spec2Model ----
(***************************************************************************)
(* A model of the research-notes store: the file-backed Record Store       *)
(* (src/src/local_db.py), the Domain Model (src/src/research/entities.py)  *)
(* and the Entity Store built on them (src/src/research/entity_store.py).  *)
(*                                                                         *)
(* Strings are sequences of one-character strings.  A directory is a       *)
(* sequence of files in the order os.listdir reports them, each file a     *)
(* record [name, content]; that order is not specified by the platform, so *)
(* a newly created file may appear at any position.                        *)
(***************************************************************************)
EXTENDS Integers, Sequences, FiniteSets, TLC

VARIABLES
    db,                 \* directory of a LocalFileDB used on its own (Record Store)
    entities_db,        \* directory of EntityStore.entities_db
    relationships_db,   \* directory of EntityStore.relationships_db
    benchmarks_db,      \* directory of EntityStore.benchmarks_db
    saved,      \* history: key -> <<v>> if the key's last operation was a save of v, else <<>>
    clean,      \* history: key -> nothing else touched the key's file since the key's last operation
    deleted,    \* history: id -> "yes" after delete_entity removed the stored entity of the id,
                \*   "shadowed" once another id of the same file name is saved after that,
                \*   "no" before the delete and after a save of the id
    last        \* the last operation performed and what it returned or raised

stores == <<entities_db, relationships_db, benchmarks_db>>
vars == <<db, entities_db, relationships_db, benchmarks_db, saved, clean, deleted, last>>

-----------------------------------------------------------------------------
(* Bounds of the model.                                                    *)

\* The directory of the Record Store holds at most MaxDbFiles files.
MaxDbFiles == 2
\* The relationship and benchmark directories together hold at most
\* MaxLinkFiles files.
MaxLinkFiles == 2

-----------------------------------------------------------------------------
(* Strings.                                                                *)

\* str.isalnum() on the characters the model uses.
isalnum(c) ==
    c \in {"a", "b", "c", "d", "e", "f", "g", "h", "i", "j", "k", "l", "m",
           "n", "o", "p", "q", "r", "s", "t", "u", "v", "w", "x", "y", "z",
           "A", "C", "G", "R", "0", "1", "2", "7"}

\* The characters the string literal '-_.' of _filename holds.
KeptPunctuation == {"-", "_", "."}

-----------------------------------------------------------------------------
(* Files and directories.                                                  *)

\* What try/except sees: a completed call, or the exception raised.
Returned(v) == [status |-> "ok", value |-> v]
Raised(exc) == [status |-> exc, value |-> <<>>]

\* A file whose text json.load cannot parse (a write cut short).
Unparsable == [parsable |-> FALSE, key |-> <<>>, data |-> <<>>]

\* The text json.dump writes for payload = {"key": key, "data": data}.
Payload(key, data) == [parsable |-> TRUE, key |-> key, data |-> data]

exists(d, name) == \E i \in 1..Len(d) : d[i].name = name

ReadFile(d, name) == d[CHOOSE i \in 1..Len(d) : d[i].name = name].content

\* open(path, "w") and a write: an existing file keeps its directory slot,
\* a new one appears at position pos of the listing.
WriteFile(d, name, content, pos) ==
    IF exists(d, name)
    THEN [i \in 1..Len(d) |->
            IF d[i].name = name THEN [name |-> name, content |-> content] ELSE d[i]]
    ELSE SubSeq(d, 1, pos - 1) \o <<[name |-> name, content |-> content]>>
            \o SubSeq(d, pos, Len(d))

remove(d, name) == SelectSeq(d, LAMBDA e : e.name # name)

\* The positions at which a write of `name` may place the file.
Positions(d, name) == IF exists(d, name) THEN {1} ELSE 1..(Len(d) + 1)

\* Room for the file `name` in directory d, which already shares its quota
\* of `cap` files with `others` files.
HasRoom(d, name, others, cap) == exists(d, name) \/ Len(d) + others < cap

-----------------------------------------------------------------------------
(* LocalFileDB (src/src/local_db.py).                                      *)

\* hashlib.sha256(key).hexdigest(): one name per key, made of characters
\* that no sanitized key of the model is made of.
sha256_hexdigest(key) == <<"sha256:">> \o key

\* A sanitizer that drops the characters it does not keep.
_filename_safe_drops(key) ==
    SelectSeq(key, LAMBDA c : isalnum(c) \/ c \in KeptPunctuation)

_filename_safe(key) ==
    [i \in 1..Len(key) |->
        IF isalnum(key[i]) \/ key[i] \in KeptPunctuation THEN key[i] ELSE "_"]

\* A store that keeps every record in the one file db.json.
_filename_one_file(key) == <<"d", "b">> \o <<".json">>

_filename(key) ==
    LET safe == _filename_safe(key)
    IN  (IF safe = <<>> THEN sha256_hexdigest(key) ELSE safe) \o <<".json">>

\* open(path, "x"): an existing record is left as it is.
save_exclusive(d, key, data, pos) ==
    IF exists(d, _filename(key)) THEN d
    ELSE WriteFile(d, _filename(key), Payload(key, data), pos)

save(d, key, data, pos) == WriteFile(d, _filename(key), Payload(key, data), pos)

get(d, key) ==
    LET path == _filename(key)
    IN  IF ~exists(d, path) THEN Raised("KeyError")
        ELSE IF ~ReadFile(d, path).parsable THEN Raised("JSONDecodeError")
        ELSE Returned(<<ReadFile(d, path).data>>)

\* A delete that reports success and leaves the file in place.
delete_keeps_file(d, key) == [dir |-> d, out |-> Returned(<<>>)]

\* A delete that accepts a missing file (no KeyError).
delete_missing_ok(d, key) == [dir |-> remove(d, _filename(key)), out |-> Returned(<<>>)]

\* delete: the directory afterwards and the outcome.
delete(d, key) ==
    LET path == _filename(key)
    IN  IF exists(d, path)
        THEN [dir |-> remove(d, path), out |-> Returned(<<>>)]
        ELSE [dir |-> d, out |-> Raised("KeyError")]

endswith_json(name) == Len(name) >= 1 /\ name[Len(name)] = ".json"

\* The file name without its suffix taken for the key.
list_keys_file_stem(file) ==
    IF ~endswith_json(file.name) THEN Returned(<<>>)
    ELSE IF ~file.content.parsable THEN Raised("JSONDecodeError")
    ELSE Returned(<<SubSeq(file.name, 1, Len(file.name) - 1)>>)

\* One round of the loop of list_keys: the keys the file contributes, or the
\* exception its body raises.
list_keys_file(file) ==
    IF ~endswith_json(file.name) THEN Returned(<<>>)
    ELSE IF ~file.content.parsable THEN Raised("JSONDecodeError")
    ELSE Returned(<<file.content.key>>)

\* The except clause of list_keys: every Exception is swallowed.
list_keys_catches(exc) == TRUE

RECURSIVE list_keys_from(_, _)
list_keys_from(d, i) ==
    IF i > Len(d) THEN Returned(<<>>)
    ELSE LET one == list_keys_file(d[i])
             rest == list_keys_from(d, i + 1)
         IN  IF one.status # "ok" /\ ~list_keys_catches(one.status) THEN one
             ELSE IF rest.status # "ok" THEN rest
             ELSE Returned((IF one.status = "ok" THEN one.value ELSE <<>>) \o rest.value)

list_keys(d) == list_keys_from(d, 1)

-----------------------------------------------------------------------------
(* The Record Store as a state machine.                                    *)

KeyAB_slash == <<"a", "/", "b">>
KeyAB_under == <<"a", "_", "b">>
KeySlashes == <<"/", "/", "/">>
KeyEmpty == <<>>

\* The keys the callers use: two that differ only in a character _filename
\* replaces, one of replaced characters only, and the empty key.
DbKeys == {KeyAB_slash, KeyAB_under, KeySlashes, KeyEmpty}

\* Two JSON values, enough to tell a record from the one it replaced.
DbData == {1, 2}

\* The history `clean` after an operation on key.
Touch(c, key) ==
    [j \in DOMAIN c |->
        IF j = key THEN TRUE
        ELSE IF _filename(j) = _filename(key) THEN FALSE
        ELSE c[j]]

\* What `last` records: the operation, its key and argument, the outcome, and
\* for a save how it relates to what the key read just before it.
Op(op, key, arg, out, prior) ==
    [op |-> op, key |-> key, arg |-> arg, status |-> out.status,
     value |-> out.value, prior |-> prior]

NoOp == Op("init", <<>>, <<>>, Returned(<<>>), "")

DbInit ==
    /\ db = <<>>
    /\ entities_db = <<>>
    /\ relationships_db = <<>>
    /\ benchmarks_db = <<>>
    /\ saved = [k \in DbKeys |-> <<>>]
    /\ clean = [k \in DbKeys |-> TRUE]
    /\ deleted = <<>>
    /\ last = NoOp

DbSave ==
    \E key \in DbKeys, data \in DbData :
        /\ HasRoom(db, _filename(key), 0, MaxDbFiles)
        /\ \E pos \in Positions(db, _filename(key)) :
                db' = save(db, key, data, pos)
        /\ saved' = [saved EXCEPT ![key] = <<data>>]
        /\ clean' = Touch(clean, key)
        /\ last' = Op("save", key, <<data>>, Returned(<<>>), "")
        /\ UNCHANGED <<stores, deleted>>

\* A save stopped between open(path, "w") and the end of json.dump: the file
\* exists and does not parse.
DbSaveInterrupted ==
    \E key \in DbKeys :
        /\ HasRoom(db, _filename(key), 0, MaxDbFiles)
        /\ \E pos \in Positions(db, _filename(key)) :
                db' = WriteFile(db, _filename(key), Unparsable, pos)
        /\ saved' = [saved EXCEPT ![key] = <<>>]
        /\ clean' = [j \in DbKeys |->
                        IF _filename(j) = _filename(key) THEN FALSE ELSE clean[j]]
        /\ last' = Op("save_interrupted", key, <<>>, Raised("crash"), "")
        /\ UNCHANGED <<stores, deleted>>

DbGet ==
    \E key \in DbKeys :
        /\ last' = Op("get", key, <<>>, get(db, key), "")
        /\ UNCHANGED <<db, stores, saved, clean, deleted>>

DbDelete ==
    \E key \in DbKeys :
        /\ db' = delete(db, key).dir
        /\ saved' = [saved EXCEPT ![key] = <<>>]
        /\ clean' = Touch(clean, key)
        /\ last' = Op("delete", key, <<>>, delete(db, key).out, "")
        /\ UNCHANGED <<stores, deleted>>

DbListKeys ==
    /\ last' = Op("list_keys", <<>>, <<>>, list_keys(db), "")
    /\ UNCHANGED <<db, stores, saved, clean, deleted>>

DbNext == DbSave \/ DbGet \/ DbDelete \/ DbListKeys

SpecRecordStore == DbInit /\ [][DbNext]_vars

DbCrashNext == DbSave \/ DbSaveInterrupted \/ DbGet \/ DbDelete \/ DbListKeys

SpecRecordStoreCrash == DbInit /\ [][DbCrashNext]_vars

-----------------------------------------------------------------------------
(* Record Store claims.                                                    *)

Range(s) == {s[i] : i \in 1..Len(s)}
NoDuplicates(s) == \A i, j \in 1..Len(s) : s[i] = s[j] => i = j

\* C1 as stated: after any save/delete sequence ending with save(k, v)
\* followed only by operations on keys other than k, get(k) returns v.
C1_ReadYourWriteAnyKey ==
    \A k \in DbKeys : saved[k] # <<>> => get(db, k) = Returned(saved[k])

\* C1 amended: after any save/delete sequence ending with save(k, v)
\* followed only by operations on keys whose file name differs from that of
\* k, get(k) returns v (also for keys _filename rewrites).
C1_ReadYourWrite ==
    \A k \in DbKeys :
        (saved[k] # <<>> /\ clean[k]) => get(db, k) = Returned(saved[k])

C1_Witness ==
    /\ last.op = "get" /\ last.key = KeyAB_slash /\ last.status = "ok"
    /\ saved[KeyAB_slash] = last.value /\ clean[KeyAB_slash]
    /\ saved[KeySlashes] # <<>>

\* C2 as stated: get(k) raises KeyError whenever k was never saved or its
\* last operation was a delete, whatever other keys have been saved.
C2_GetMissingAnyKey ==
    \A k \in DbKeys : saved[k] = <<>> => get(db, k) = Raised("KeyError")

\* C2 amended: get(k) raises KeyError whenever k was never saved or its last
\* operation was a delete, and no key with the same file name as k has been
\* operated on since, whatever keys with other file names have been saved.
C2_GetMissing ==
    \A k \in DbKeys :
        (saved[k] = <<>> /\ clean[k]) => get(db, k) = Raised("KeyError")

C2_Witness ==
    /\ last.op = "get" /\ last.status = "KeyError"
    /\ saved[last.key] = <<>> /\ clean[last.key]
    /\ Len(db) >= 2
    /\ \E k \in DbKeys \ {last.key} : _filename(k) = _filename(last.key)

\* Directory e holds the records of d but for the record listed under key k,
\* which it holds no more.
RemovedExactly(d, e, k) ==
    /\ k \in Range(list_keys(d).value)
    /\ get(e, k) = Raised("KeyError")
    /\ list_keys(e).value = SelectSeq(list_keys(d).value, LAMBDA x : x # k)
    /\ \A j \in Range(list_keys(e).value) : get(e, j) = get(d, j)

\* C3 as stated: delete(k) raises KeyError when k is not currently stored and
\* then leaves every record unchanged; when k is stored it removes exactly
\* the record of k.
C3_DeleteAnyKey ==
    [][last'.op = "delete" =>
        IF saved[last'.key] = <<>>
        THEN last'.status = "KeyError" /\ db' = db
        ELSE last'.status = "ok" /\ RemovedExactly(db, db', last'.key)]_vars

\* C3 amended: delete(k) raises KeyError exactly when no record file exists
\* under the file name of k, and then leaves every record unchanged;
\* otherwise it removes that one file and no other.  So, when no key with the
\* same file name has been operated on since the last operation on k, it
\* raises KeyError if k is not stored and removes exactly the record of k if
\* k is stored.
C3_Delete ==
    [][last'.op = "delete" =>
        LET k == last'.key
        IN  /\ IF exists(db, _filename(k))
               THEN last'.status = "ok" /\ db' = remove(db, _filename(k))
               ELSE last'.status = "KeyError" /\ db' = db
            /\ (clean[k] /\ saved[k] = <<>>) =>
                    last'.status = "KeyError" /\ db' = db
            /\ (clean[k] /\ saved[k] # <<>>) =>
                    last'.status = "ok" /\ RemovedExactly(db, db', k)]_vars

C3_Witness ==
    /\ last.op = "delete" /\ last.status = "KeyError"
    /\ Len(db) >= 2

\* C4 as stated: list_keys() returns exactly the keys saved and not
\* subsequently deleted, each once, as the original key, and never raises.
C4_ListKeysAnyKey ==
    /\ list_keys(db).status = "ok"
    /\ Range(list_keys(db).value) = {k \in DbKeys : saved[k] # <<>>}
    /\ NoDuplicates(list_keys(db).value)

\* C4 amended: list_keys() returns exactly the keys saved and not subsequently
\* deleted whose file no operation on another key with the same file name
\* (and no interrupted write) has touched since, each once, as the original
\* key and not the sanitized file name; a record file that fails to parse is
\* skipped without raising.
C4_ListKeys ==
    /\ list_keys(db).status = "ok"
    /\ Range(list_keys(db).value) = {k \in DbKeys : saved[k] # <<>> /\ clean[k]}
    /\ NoDuplicates(list_keys(db).value)

C4_Witness ==
    /\ last.op = "list_keys" /\ last.status = "ok"
    /\ \E i \in 1..Len(db) : ~db[i].content.parsable
    /\ KeyAB_slash \in Range(last.value)
    /\ Len(last.value) = 1

-----------------------------------------------------------------------------
(* Domain Model (src/src/research/entities.py).                            *)

\* A feature or metadata value: a str, or a JSON value of another type
\* (written as its digits).
StrVal(s) == [type |-> "str", v |-> s]
NumVal(s) == [type |-> "int", v |-> s]

EntityTypeMembers ==
    {"METHOD", "PAPER", "REPOSITORY", "BENCHMARK", "DATASET", "FEATURE", "METRIC"}

\* member.value of class EntityType.
EntityTypeValue(member) ==
    CASE member = "METHOD" -> "method"
      [] member = "PAPER" -> "paper"
      [] member = "REPOSITORY" -> "repository"
      [] member = "BENCHMARK" -> "benchmark"
      [] member = "DATASET" -> "dataset"
      [] member = "FEATURE" -> "feature"
      [] member = "METRIC" -> "metric"

\* An EntityType(value) that makes a member of any string.
EntityType_any(value) == Returned(<<value>>)

\* EntityType(value): the member of that value; ValueError if there is none.
EntityType(value) ==
    IF \E m \in EntityTypeMembers : EntityTypeValue(m) = value
    THEN Returned(<<CHOOSE m \in EntityTypeMembers : EntityTypeValue(m) = value>>)
    ELSE Raised("ValueError")

RelationTypeMembers ==
    {"IMPLEMENTS", "USES", "IMPROVES_UPON", "EVALUATED_ON", "PART_OF",
     "COMPARED_WITH", "BASED_ON"}

\* member.value of class RelationType, a string of characters.
RelationTypeValue(member) ==
    CASE member = "IMPLEMENTS" ->
            <<"i", "m", "p", "l", "e", "m", "e", "n", "t", "s">>
      [] member = "USES" ->
            <<"u", "s", "e", "s">>
      [] member = "IMPROVES_UPON" ->
            <<"i", "m", "p", "r", "o", "v", "e", "s", "_", "u", "p", "o", "n">>
      [] member = "EVALUATED_ON" ->
            <<"e", "v", "a", "l", "u", "a", "t", "e", "d", "_", "o", "n">>
      [] member = "PART_OF" ->
            <<"p", "a", "r", "t", "_", "o", "f">>
      [] member = "COMPARED_WITH" ->
            <<"c", "o", "m", "p", "a", "r", "e", "d", "_", "w", "i", "t", "h">>
      [] member = "BASED_ON" ->
            <<"b", "a", "s", "e", "d", "_", "o", "n">>

RelationType(value) ==
    IF \E m \in RelationTypeMembers : RelationTypeValue(m) = value
    THEN Returned(<<CHOOSE m \in RelationTypeMembers : RelationTypeValue(m) = value>>)
    ELSE Raised("ValueError")

\* A datetime is [second, microsecond].  isoformat() writes the fraction
\* only when microsecond is not 0; fromisoformat reads both forms.
isoformat(dt) ==
    IF dt.microsecond = 0 THEN <<dt.second>> ELSE <<dt.second, dt.microsecond>>

\* A fromisoformat that reads the whole seconds only.
fromisoformat_whole_seconds(text) == [second |-> text[1], microsecond |-> 0]

fromisoformat(text) ==
    [second |-> text[1], microsecond |-> IF Len(text) = 1 THEN 0 ELSE text[2]]

\* datetime.now(), the default of created_at.
now == [second |-> 9, microsecond |-> 9]

\* data.get(field, default).
get_or(data, field, default) == IF field \in DOMAIN data THEN data[field] ELSE default

\* A to_dict that leaves the fraction of created_at out.
Entity_to_dict_whole_seconds(e) ==
    [id |-> e.id, name |-> e.name, entity_type |-> EntityTypeValue(e.entity_type),
     features |-> e.features, metadata |-> e.metadata,
     created_at |-> <<e.created_at.second>>]

Entity_to_dict(e) ==
    [id |-> e.id, name |-> e.name, entity_type |-> EntityTypeValue(e.entity_type),
     features |-> e.features, metadata |-> e.metadata,
     created_at |-> isoformat(e.created_at)]

\* The keyword arguments are evaluated in order: a missing key raises
\* KeyError before EntityType can raise ValueError for a later one.
Entity_from_dict(data) ==
    IF ~({"id", "name", "entity_type"} \subseteq DOMAIN data) THEN Raised("KeyError")
    ELSE IF EntityType(data.entity_type).status # "ok" THEN Raised("ValueError")
    ELSE Returned(<<[id |-> data.id, name |-> data.name,
                     entity_type |-> EntityType(data.entity_type).value[1],
                     features |-> get_or(data, "features", <<>>),
                     metadata |-> get_or(data, "metadata", <<>>),
                     created_at |-> IF "created_at" \in DOMAIN data
                                    THEN fromisoformat(data.created_at) ELSE now]>>)

\* A to_dict that leaves the properties out.
EntityRelationship_to_dict_no_properties(r) ==
    [source_id |-> r.source_id, target_id |-> r.target_id,
     relation_type |-> RelationTypeValue(r.relation_type),
     confidence |-> r.confidence, created_at |-> isoformat(r.created_at)]

EntityRelationship_to_dict(r) ==
    [source_id |-> r.source_id, target_id |-> r.target_id,
     relation_type |-> RelationTypeValue(r.relation_type),
     properties |-> r.properties, confidence |-> r.confidence,
     created_at |-> isoformat(r.created_at)]

EntityRelationship_from_dict(data) ==
    IF ~({"source_id", "target_id", "relation_type"} \subseteq DOMAIN data)
    THEN Raised("KeyError")
    ELSE IF RelationType(data.relation_type).status # "ok" THEN Raised("ValueError")
    ELSE Returned(<<[source_id |-> data.source_id, target_id |-> data.target_id,
                     relation_type |-> RelationType(data.relation_type).value[1],
                     properties |-> get_or(data, "properties", <<>>),
                     confidence |-> get_or(data, "confidence", 100),
                     created_at |-> IF "created_at" \in DOMAIN data
                                    THEN fromisoformat(data.created_at) ELSE now]>>)

BenchmarkScore_to_dict(s) ==
    [method_id |-> s.method_id, benchmark_id |-> s.benchmark_id,
     metric_name |-> s.metric_name, score |-> s.score, metadata |-> s.metadata]

\* BenchmarkScore(**data): TypeError for a missing required field or an
\* unknown one; metadata defaults to {}.
BenchmarkScore(data) ==
    IF ~({"method_id", "benchmark_id", "metric_name", "score"} \subseteq DOMAIN data)
        \/ ~(DOMAIN data \subseteq
                {"method_id", "benchmark_id", "metric_name", "score", "metadata"})
    THEN Raised("TypeError")
    ELSE Returned(<<[method_id |-> data.method_id, benchmark_id |-> data.benchmark_id,
                     metric_name |-> data.metric_name, score |-> data.score,
                     metadata |-> get_or(data, "metadata", <<>>)]>>)

-----------------------------------------------------------------------------
(* EntityStore: entities (src/src/research/entity_store.py).               *)

\* None, the result of a getter that found nothing.
None == <<>>

save_entity(d, entity, pos) == save(d, entity.id, Entity_to_dict(entity), pos)

\* A get_entity whose except clause catches nothing.
get_entity_catches_nothing(exc) == FALSE

\* The except clause of get_entity: KeyError only.
get_entity_catches(exc) == exc = "KeyError"

\* The try block holds both the read and from_dict, so a KeyError of either
\* gives None; any other exception leaves get_entity.
get_entity(d, entity_id) ==
    LET data == get(d, entity_id)
    IN  IF data.status # "ok"
        THEN IF get_entity_catches(data.status) THEN Returned(None) ELSE data
        ELSE LET e == Entity_from_dict(data.value[1])
             IN  IF e.status # "ok" /\ get_entity_catches(e.status)
                 THEN Returned(None) ELSE e

delete_entity(d, entity_id) == delete(d, entity_id)

\* A filter that lets every type through.
list_entities_keep_any(entity, entity_type) == entity # None

\* The condition of the if in list_entities; entity_type is None or <<member>>.
list_entities_keep(entity, entity_type) ==
    entity # None /\ (entity_type = None \/ entity[1].entity_type = entity_type[1])

RECURSIVE list_entities_from(_, _, _)
list_entities_from(d, keys, entity_type) ==
    IF keys = <<>> THEN Returned(<<>>)
    ELSE LET entity == get_entity(d, Head(keys))
         IN  IF entity.status # "ok" THEN entity
             ELSE LET rest == list_entities_from(d, Tail(keys), entity_type)
                  IN  IF rest.status # "ok" THEN rest
                      ELSE Returned((IF list_entities_keep(entity.value, entity_type)
                                     THEN entity.value ELSE <<>>) \o rest.value)

list_entities(d, entity_type) ==
    LET keys == list_keys(d)
    IN  IF keys.status # "ok" THEN keys
        ELSE list_entities_from(d, keys.value, entity_type)

\* str.lower() on the characters the model uses.
lower_char(c) ==
    CASE c = "A" -> "a" [] c = "C" -> "c" [] c = "G" -> "g" [] c = "R" -> "r"
      [] OTHER -> c

lower(s) == [i \in 1..Len(s) |-> lower_char(s[i])]

\* sub in s, for strings.
contains(sub, s) ==
    \E i \in 0..(Len(s) - Len(sub)) : SubSeq(s, i + 1, i + Len(sub)) = sub

\* The order in which a features dict yields its entries.
FeatureOrder == <<"desc", "task", "year">>
FeatureKeys(features) == SelectSeq(FeatureOrder, LAMBDA k : k \in DOMAIN features)

\* The inner loop without its break: one append per matching feature.
RECURSIVE search_features_no_break(_, _, _)
search_features_no_break(entity, query_lower, keys) ==
    IF keys = <<>> THEN <<>>
    ELSE LET value == entity.features[Head(keys)]
         IN  (IF value.type = "str" /\ contains(query_lower, lower(value.v))
              THEN <<entity>> ELSE <<>>)
             \o search_features_no_break(entity, query_lower, Tail(keys))

\* The inner loop of search_entities over entity.features.values(): what it
\* appends to results (it stops at the first match).
RECURSIVE search_features(_, _, _)
search_features(entity, query_lower, keys) ==
    IF keys = <<>> THEN <<>>
    ELSE LET value == entity.features[Head(keys)]
         IN  IF value.type = "str" /\ contains(query_lower, lower(value.v))
             THEN <<entity>>
             ELSE search_features(entity, query_lower, Tail(keys))

\* The body of the outer loop: a match of the name appends and continues.
search_entity(entity, query_lower) ==
    IF contains(query_lower, lower(entity.name)) THEN <<entity>>
    ELSE search_features(entity, query_lower, FeatureKeys(entity.features))

RECURSIVE search_entities_from(_, _)
search_entities_from(entities, query_lower) ==
    IF entities = <<>> THEN <<>>
    ELSE search_entity(Head(entities), query_lower)
            \o search_entities_from(Tail(entities), query_lower)

search_entities(d, query, entity_type) ==
    LET entities == list_entities(d, entity_type)
    IN  IF entities.status # "ok" THEN entities
        ELSE Returned(search_entities_from(entities.value, lower(query)))

-----------------------------------------------------------------------------
(* The entities of the Entity Store as a state machine.                    *)

IdPlain == <<"m", "1">>
NameRAG == <<"R", "A", "G">>
NameCol == <<"C", "o", "l">>

\* Ids: one alone on its file name, two that share one.
EntityIds == {IdPlain, KeyAB_slash, KeyAB_under}
EntityTypes == {"METHOD", "PAPER"}

\* The entities saved under each id: one whose name alone holds "rag", one
\* whose name and two str features hold it, one with only the features, and
\* one with neither, whose only feature is no str.  Their types, metadata
\* and timestamps (a whole second or not) differ too.
EntityShapes ==
    { [name |-> NameRAG, entity_type |-> "METHOD",
       features |-> <<>>, metadata |-> <<>>,
       created_at |-> [second |-> 1, microsecond |-> 0]],
      [name |-> NameRAG, entity_type |-> "PAPER",
       features |-> [desc |-> StrVal(<<"R", "a", "g">>),
                     task |-> StrVal(<<"r", "A", "G", "7">>),
                     year |-> NumVal(<<"7">>)],
       metadata |-> [url |-> StrVal(<<"a">>)],
       created_at |-> [second |-> 2, microsecond |-> 5]],
      [name |-> NameCol, entity_type |-> "METHOD",
       features |-> [desc |-> StrVal(<<"R", "a", "g">>),
                     task |-> StrVal(<<"r", "A", "G", "7">>),
                     year |-> NumVal(<<"7">>)],
       metadata |-> <<>>,
       created_at |-> [second |-> 2, microsecond |-> 0]],
      [name |-> NameCol, entity_type |-> "PAPER",
       features |-> [year |-> NumVal(<<"7">>)],
       metadata |-> [url |-> StrVal(<<"a">>)],
       created_at |-> [second |-> 1, microsecond |-> 5]] }

Entities ==
    { [id |-> i, name |-> p.name, entity_type |-> p.entity_type,
       features |-> p.features, metadata |-> p.metadata,
       created_at |-> p.created_at] : i \in EntityIds, p \in EntityShapes }

\* The type filters and the queries the callers pass.
TypeFilters == {None} \cup {<<t>> : t \in EntityTypes}
Queries == {<<"R", "a", "g">>, <<"7">>, <<>>}

EntInit ==
    /\ db = <<>>
    /\ entities_db = <<>>
    /\ relationships_db = <<>>
    /\ benchmarks_db = <<>>
    /\ saved = [i \in EntityIds |-> <<>>]
    /\ clean = [i \in EntityIds |-> TRUE]
    /\ deleted = [i \in EntityIds |-> "no"]
    /\ last = NoOp

EntSaveEntity ==
    \E entity \in Entities :
        /\ \E pos \in Positions(entities_db, _filename(entity.id)) :
                entities_db' = save_entity(entities_db, entity, pos)
        /\ saved' = [saved EXCEPT ![entity.id] = <<entity>>]
        /\ clean' = Touch(clean, entity.id)
        /\ deleted' = [j \in EntityIds |->
                IF j = entity.id THEN "no"
                ELSE IF _filename(j) = _filename(entity.id) /\ deleted[j] = "yes"
                     THEN "shadowed"
                ELSE deleted[j]]
        /\ last' = Op("save_entity", entity.id, <<entity>>, Returned(None),
                      LET before == get_entity(entities_db, entity.id).value
                      IN  IF before = None THEN "new"
                          ELSE IF before[1].name # entity.name THEN "renamed"
                          ELSE "kept")
        /\ UNCHANGED <<db, relationships_db, benchmarks_db>>

EntGetEntity ==
    \E id \in EntityIds :
        /\ last' = Op("get_entity", id, <<>>, get_entity(entities_db, id), "")
        /\ UNCHANGED <<db, stores, saved, clean, deleted>>

EntDeleteEntity ==
    \E id \in EntityIds :
        LET r == delete_entity(entities_db, id)
        IN  /\ entities_db' = r.dir
            /\ saved' = [saved EXCEPT ![id] = <<>>]
            /\ clean' = Touch(clean, id)
            /\ deleted' = [deleted EXCEPT ![id] =
                    IF saved[id] # <<>> /\ r.out.status = "ok" THEN "yes" ELSE @]
            /\ last' = Op("delete_entity", id, <<>>, r.out, "")
            /\ UNCHANGED <<db, relationships_db, benchmarks_db>>

EntListEntities ==
    \E t \in TypeFilters :
        /\ last' = Op("list_entities", <<>>, t, list_entities(entities_db, t), "")
        /\ UNCHANGED <<db, stores, saved, clean, deleted>>

EntSearchEntities ==
    \E q \in Queries, t \in TypeFilters :
        /\ last' = Op("search_entities", q, t, search_entities(entities_db, q, t), "")
        /\ UNCHANGED <<db, stores, saved, clean, deleted>>

EntNext ==
    EntSaveEntity \/ EntGetEntity \/ EntDeleteEntity \/ EntListEntities
        \/ EntSearchEntities

SpecEntityStore == EntInit /\ [][EntNext]_vars

-----------------------------------------------------------------------------
(* Entity Store claims: entities.                                          *)

Ids(entities) == [i \in 1..Len(entities) |-> entities[i].id]

\* C5: after save_entity(e), get_entity(e.id) returns an entity equal to e in
\* id, name, entity_type, features, metadata and created_at, and a later save
\* under the same id with a different name replaces the earlier entity: the
\* store lists one entity under that id, the later one.
C5_SaveThenGet ==
    last.op = "save_entity" =>
        LET e == last.arg[1]
            got == get_entity(entities_db, e.id)
        IN  /\ got.status = "ok" /\ got.value # None
            /\ got.value[1].id = e.id
            /\ got.value[1].name = e.name
            /\ got.value[1].entity_type = e.entity_type
            /\ got.value[1].features = e.features
            /\ got.value[1].metadata = e.metadata
            /\ got.value[1].created_at = e.created_at
            /\ SelectSeq(list_entities(entities_db, None).value,
                         LAMBDA x : x.id = e.id) = <<e>>

C5_Witness ==
    /\ last.op = "save_entity" /\ last.prior = "renamed"
    /\ DOMAIN last.arg[1].features # {}
    /\ DOMAIN last.arg[1].metadata # {}
    /\ last.arg[1].created_at.microsecond # 0
    /\ Len(entities_db) = 2

\* C6 as stated: after delete_entity(id) on a stored entity, get_entity(id)
\* returns None until an entity with that id is saved again.
C6_DeletedIsNoneAnyId ==
    \A id \in EntityIds :
        deleted[id] \in {"yes", "shadowed"} =>
            get_entity(entities_db, id) = Returned(None)

\* C6 amended: after delete_entity(id) on a stored entity, get_entity(id)
\* returns None, without raising, until an entity is saved with that id or
\* with an id of the same file name.
C6_DeletedIsNone ==
    \A id \in EntityIds :
        deleted[id] = "yes" => get_entity(entities_db, id) = Returned(None)

C6_Witness ==
    /\ last.op = "get_entity" /\ deleted[last.key] = "yes"
    /\ last.status = "ok" /\ last.value = None
    /\ Len(entities_db) >= 1

\* The entities a listing with filter t owes when the stored ids are `ids`.
Owed(ids, t) ==
    {saved[i][1] : i \in {j \in ids : t = None \/ saved[j][1].entity_type = t[1]}}

\* C7 as stated: list_entities() returns exactly one entity per id saved and
\* not subsequently deleted, and list_entities(t) exactly those of them whose
\* entity_type is t.
C7_ListEntitiesAnyId ==
    \A t \in TypeFilters :
        LET listed == list_entities(entities_db, t)
        IN  /\ listed.status = "ok"
            /\ Range(listed.value) = Owed({i \in EntityIds : saved[i] # <<>>}, t)
            /\ NoDuplicates(Ids(listed.value))

\* C7 amended: list_entities() returns exactly one entity per id saved and not
\* subsequently deleted whose file no operation on another id of the same
\* file name has touched since, and list_entities(t) exactly those of them
\* whose entity_type is t.
C7_ListEntities ==
    \A t \in TypeFilters :
        LET listed == list_entities(entities_db, t)
        IN  /\ listed.status = "ok"
            /\ Range(listed.value) =
                    Owed({i \in EntityIds : saved[i] # <<>> /\ clean[i]}, t)
            /\ NoDuplicates(Ids(listed.value))

C7_Witness ==
    /\ last.op = "list_entities" /\ last.arg = <<"METHOD">>
    /\ Len(last.value) = 1
    /\ Len(list_entities(entities_db, None).value) = 2
    /\ \E i \in EntityIds : deleted[i] # "no" /\ saved[i] = <<>>

\* Case-insensitive containment of the query in a string.
ContainsIgnoringCase(query, s) == contains(lower(query), lower(s))

\* The query matches the name or a string-valued feature of the entity.
Matches(e, query) ==
    \/ ContainsIgnoringCase(query, e.name)
    \/ \E k \in DOMAIN e.features :
            e.features[k].type = "str" /\ ContainsIgnoringCase(query, e.features[k].v)

\* C8: search_entities(q, t) returns exactly the entities of list_entities(t)
\* whose name, or some string-valued feature, contains q case-insensitively,
\* each once however many of its fields match, in the order of list_entities.
C8_SearchEntities ==
    \A q \in Queries, t \in TypeFilters :
        search_entities(entities_db, q, t) =
            Returned(SelectSeq(list_entities(entities_db, t).value,
                               LAMBDA e : Matches(e, q)))

C8_Witness ==
    /\ last.op = "search_entities" /\ last.key = <<"R", "a", "g">>
    /\ Len(list_entities(entities_db, last.arg).value) = 2
    /\ Len(last.value) = 1
    /\ last.value[1].name = NameRAG
    /\ DOMAIN last.value[1].features # {}

-----------------------------------------------------------------------------
(* EntityStore: relationships and benchmark scores                         *)
(* (src/src/research/entity_store.py).                                     *)

\* bool(x) of an Optional[str] argument <<x>>: None and "" are both false.
truthy(arg) == arg # None /\ arg[1] # <<>>

\* bool(x) of an Optional[RelationType] argument: every member is true.
truthy_member(arg) == arg # None

\* rel_id, the f-string of save_relationship.
rel_id(relationship) ==
    relationship.source_id \o <<"_">>
        \o RelationTypeValue(relationship.relation_type) \o <<"_">>
        \o relationship.target_id

save_relationship(d, relationship, pos) ==
    save(d, rel_id(relationship), EntityRelationship_to_dict(relationship), pos)

\* The except clause inside the loop of get_relationships: Exception.
get_relationships_catches(exc) == TRUE

\* The body of the loop of get_relationships: what one key appends.
get_relationships_key(d, key, source_id, target_id, relation_type) ==
    LET data == get(d, key)
        rel == EntityRelationship_from_dict(data.value[1])
    IN  IF data.status # "ok"
        THEN IF get_relationships_catches(data.status) THEN Returned(<<>>) ELSE data
        ELSE IF rel.status # "ok"
        THEN IF get_relationships_catches(rel.status) THEN Returned(<<>>) ELSE rel
        ELSE IF truthy(source_id) /\ rel.value[1].source_id # source_id[1]
        THEN Returned(<<>>)
        ELSE IF truthy(target_id) /\ rel.value[1].target_id # target_id[1]
        THEN Returned(<<>>)
        ELSE IF truthy_member(relation_type)
                    /\ rel.value[1].relation_type # relation_type[1]
        THEN Returned(<<>>)
        ELSE rel

RECURSIVE get_relationships_from(_, _, _, _, _)
get_relationships_from(d, keys, source_id, target_id, relation_type) ==
    IF keys = <<>> THEN Returned(<<>>)
    ELSE LET one == get_relationships_key(d, Head(keys), source_id, target_id,
                                          relation_type)
             rest == get_relationships_from(d, Tail(keys), source_id, target_id,
                                            relation_type)
         IN  IF one.status # "ok" THEN one
             ELSE IF rest.status # "ok" THEN rest
             ELSE Returned(one.value \o rest.value)

get_relationships(d, source_id, target_id, relation_type) ==
    LET keys == list_keys(d)
    IN  IF keys.status # "ok" THEN keys
        ELSE get_relationships_from(d, keys.value, source_id, target_id,
                                    relation_type)

\* score_id, the f-string of save_benchmark_score.
score_id(score) ==
    score.method_id \o <<"_">> \o score.benchmark_id \o <<"_">> \o score.metric_name

save_benchmark_score(d, score, pos) ==
    save(d, score_id(score), BenchmarkScore_to_dict(score), pos)

\* The except clause inside the loop of get_benchmark_scores: Exception.
get_benchmark_scores_catches(exc) == TRUE

\* The body of the loop of get_benchmark_scores: what one key appends.
get_benchmark_scores_key(d, key, method_id, benchmark_id, metric_name) ==
    LET data == get(d, key)
        score == BenchmarkScore(data.value[1])
    IN  IF data.status # "ok"
        THEN IF get_benchmark_scores_catches(data.status) THEN Returned(<<>>) ELSE data
        ELSE IF score.status # "ok"
        THEN IF get_benchmark_scores_catches(score.status) THEN Returned(<<>>) ELSE score
        ELSE IF truthy(method_id) /\ score.value[1].method_id # method_id[1]
        THEN Returned(<<>>)
        ELSE IF truthy(benchmark_id) /\ score.value[1].benchmark_id # benchmark_id[1]
        THEN Returned(<<>>)
        ELSE IF truthy(metric_name) /\ score.value[1].metric_name # metric_name[1]
        THEN Returned(<<>>)
        ELSE score

RECURSIVE get_benchmark_scores_from(_, _, _, _, _)
get_benchmark_scores_from(d, keys, method_id, benchmark_id, metric_name) ==
    IF keys = <<>> THEN Returned(<<>>)
    ELSE LET one == get_benchmark_scores_key(d, Head(keys), method_id, benchmark_id,
                                             metric_name)
             rest == get_benchmark_scores_from(d, Tail(keys), method_id,
                                               benchmark_id, metric_name)
         IN  IF one.status # "ok" THEN one
             ELSE IF rest.status # "ok" THEN rest
             ELSE Returned(one.value \o rest.value)

get_benchmark_scores(d, method_id, benchmark_id, metric_name) ==
    LET keys == list_keys(d)
    IN  IF keys.status # "ok" THEN keys
        ELSE get_benchmark_scores_from(d, keys.value, method_id, benchmark_id,
                                       metric_name)

-----------------------------------------------------------------------------
(* The relationships and benchmark scores of the Entity Store as a state   *)
(* machine.                                                                *)

IdA == <<"a">>
IdB == <<"b">>
IdC == <<"c">>
Empty == <<>>

\* The relationships saved: two of one triple that differ in properties, and
\* three that differ from it in the source (the empty id), in the type and in
\* the target.
Relationships ==
    { [source_id |-> IdA, target_id |-> IdB, relation_type |-> "USES",
       properties |-> [note |-> StrVal(<<"x">>)], confidence |-> 100,
       created_at |-> [second |-> 1, microsecond |-> 0]],
      [source_id |-> IdA, target_id |-> IdB, relation_type |-> "USES",
       properties |-> [note |-> StrVal(<<"y">>)], confidence |-> 50,
       created_at |-> [second |-> 2, microsecond |-> 5]],
      [source_id |-> Empty, target_id |-> IdB, relation_type |-> "USES",
       properties |-> [note |-> StrVal(<<"x">>)], confidence |-> 100,
       created_at |-> [second |-> 1, microsecond |-> 0]],
      [source_id |-> IdA, target_id |-> IdB, relation_type |-> "PART_OF",
       properties |-> <<>>, confidence |-> 100,
       created_at |-> [second |-> 1, microsecond |-> 0]],
      [source_id |-> IdA, target_id |-> IdC, relation_type |-> "USES",
       properties |-> <<>>, confidence |-> 100,
       created_at |-> [second |-> 1, microsecond |-> 0]] }

\* The scores saved: two of one triple that differ in the score, and three
\* that differ from it in the method (the empty id), in the benchmark and in
\* the metric.
Scores ==
    { [method_id |-> IdA, benchmark_id |-> IdB, metric_name |-> <<"f", "1">>,
       score |-> 80, metadata |-> <<>>],
      [method_id |-> IdA, benchmark_id |-> IdB, metric_name |-> <<"f", "1">>,
       score |-> 90, metadata |-> [hw |-> StrVal(<<"x">>)]],
      [method_id |-> Empty, benchmark_id |-> IdB, metric_name |-> <<"f", "1">>,
       score |-> 80, metadata |-> <<>>],
      [method_id |-> IdA, benchmark_id |-> IdC, metric_name |-> <<"f", "1">>,
       score |-> 80, metadata |-> <<>>],
      [method_id |-> IdA, benchmark_id |-> IdB, metric_name |-> <<"e", "m">>,
       score |-> 80, metadata |-> <<>>] }

\* The filter arguments the callers pass: None, the empty string, an id.
SourceFilters == {None, <<Empty>>, <<IdA>>}
TargetFilters == {None, <<IdB>>}
RelationFilters == {None, <<"USES">>}
MetricFilters == {None, <<<<"f", "1">>>>}

LinkInit ==
    /\ db = <<>>
    /\ entities_db = <<>>
    /\ relationships_db = <<>>
    /\ benchmarks_db = <<>>
    /\ saved = <<>>
    /\ clean = <<>>
    /\ deleted = <<>>
    /\ last = NoOp

\* How a saved record relates to the one its triple read before the save.
Prior(before, record) ==
    IF before = <<>> THEN "new"
    ELSE IF before = <<record>> THEN "kept"
    ELSE "replaced"

LinkSaveRelationship ==
    \E r \in Relationships :
        /\ HasRoom(relationships_db, _filename(rel_id(r)), Len(benchmarks_db),
                   MaxLinkFiles)
        /\ \E pos \in Positions(relationships_db, _filename(rel_id(r))) :
                relationships_db' = save_relationship(relationships_db, r, pos)
        /\ last' = Op("save_relationship", rel_id(r), <<r>>, Returned(None),
                      Prior(get_relationships_key(relationships_db, rel_id(r),
                                                  None, None, None).value, r))
        /\ UNCHANGED <<db, entities_db, benchmarks_db, saved, clean, deleted>>

LinkGetRelationships ==
    \E s \in SourceFilters, t \in TargetFilters, r \in RelationFilters :
        /\ last' = Op("get_relationships", <<>>, <<s, t, r>>,
                      get_relationships(relationships_db, s, t, r), "")
        /\ UNCHANGED <<db, stores, saved, clean, deleted>>

LinkSaveBenchmarkScore ==
    \E s \in Scores :
        /\ HasRoom(benchmarks_db, _filename(score_id(s)), Len(relationships_db),
                   MaxLinkFiles)
        /\ \E pos \in Positions(benchmarks_db, _filename(score_id(s))) :
                benchmarks_db' = save_benchmark_score(benchmarks_db, s, pos)
        /\ last' = Op("save_benchmark_score", score_id(s), <<s>>, Returned(None),
                      Prior(get_benchmark_scores_key(benchmarks_db, score_id(s),
                                                     None, None, None).value, s))
        /\ UNCHANGED <<db, entities_db, relationships_db, saved, clean, deleted>>

LinkGetBenchmarkScores ==
    \E m \in SourceFilters, b \in TargetFilters, n \in MetricFilters :
        /\ last' = Op("get_benchmark_scores", <<>>, <<m, b, n>>,
                      get_benchmark_scores(benchmarks_db, m, b, n), "")
        /\ UNCHANGED <<db, stores, saved, clean, deleted>>

\* A save_relationship or save_benchmark_score stopped inside LocalFileDB.save
\* between open(path, "w") and the end of json.dump.
LinkSaveInterrupted ==
    /\ \/ \E r \in Relationships :
            /\ HasRoom(relationships_db, _filename(rel_id(r)), Len(benchmarks_db),
                       MaxLinkFiles)
            /\ \E pos \in Positions(relationships_db, _filename(rel_id(r))) :
                    relationships_db' = WriteFile(relationships_db,
                                            _filename(rel_id(r)), Unparsable, pos)
            /\ UNCHANGED benchmarks_db
       \/ \E s \in Scores :
            /\ HasRoom(benchmarks_db, _filename(score_id(s)), Len(relationships_db),
                       MaxLinkFiles)
            /\ \E pos \in Positions(benchmarks_db, _filename(score_id(s))) :
                    benchmarks_db' = WriteFile(benchmarks_db,
                                            _filename(score_id(s)), Unparsable, pos)
            /\ UNCHANGED relationships_db
    /\ last' = Op("save_interrupted", <<>>, <<>>, Raised("crash"), "")
    /\ UNCHANGED <<db, entities_db, saved, clean, deleted>>

LinkNext ==
    LinkSaveRelationship \/ LinkGetRelationships \/ LinkSaveBenchmarkScore
        \/ LinkGetBenchmarkScores \/ LinkSaveInterrupted

SpecLinks == LinkInit /\ [][LinkNext]_vars

-----------------------------------------------------------------------------
(* Entity Store claims: relationships and benchmark scores.                *)

\* The well-formed relationships and scores that the files of d hold.
StoredRelationships(d) ==
    { EntityRelationship_from_dict(d[i].content.data).value[1] :
        i \in { j \in 1..Len(d) :
                    /\ d[j].content.parsable
                    /\ EntityRelationship_from_dict(d[j].content.data).status = "ok" } }

StoredScores(d) ==
    { BenchmarkScore(d[i].content.data).value[1] :
        i \in { j \in 1..Len(d) :
                    /\ d[j].content.parsable
                    /\ BenchmarkScore(d[j].content.data).status = "ok" } }

\* A filter argument that was supplied (is not None) equals the field.
Satisfies(arg, field) == arg # None => field = arg[1]

\* C9: get_relationships(source_id, target_id, relation_type) and
\* get_benchmark_scores(method_id, benchmark_id, metric_name) return exactly
\* the stored well-formed records for which every supplied filter argument
\* equals the corresponding field: no record failing a supplied filter is
\* returned, no supplied filter value is ignored, and with no filter supplied
\* all records are returned.
C9_EverySuppliedFilterApplies ==
    /\ \A s \in SourceFilters, t \in TargetFilters, r \in RelationFilters :
        LET got == get_relationships(relationships_db, s, t, r)
        IN  /\ got.status = "ok"
            /\ NoDuplicates(got.value)
            /\ Range(got.value) =
                    { x \in StoredRelationships(relationships_db) :
                        /\ Satisfies(s, x.source_id)
                        /\ Satisfies(t, x.target_id)
                        /\ Satisfies(r, x.relation_type) }
    /\ \A m \in SourceFilters, b \in TargetFilters, n \in MetricFilters :
        LET got == get_benchmark_scores(benchmarks_db, m, b, n)
        IN  /\ got.status = "ok"
            /\ NoDuplicates(got.value)
            /\ Range(got.value) =
                    { x \in StoredScores(benchmarks_db) :
                        /\ Satisfies(m, x.method_id)
                        /\ Satisfies(b, x.benchmark_id)
                        /\ Satisfies(n, x.metric_name) }

\* The identifying triples.
RelationshipTriple(r) == <<r.source_id, r.relation_type, r.target_id>>
ScoreTriple(s) == <<s.method_id, s.benchmark_id, s.metric_name>>

\* C10: saving is an upsert on the identifying triple: after a relationship
\* is saved, also when one of the same (source_id, relation_type, target_id)
\* with other properties was stored, exactly one relationship of that triple
\* is stored and it holds the properties just saved; after a benchmark score
\* is saved, exactly one score of its (method_id, benchmark_id, metric_name)
\* is stored and it holds the score value just saved.
C10_SaveIsUpsert ==
    /\ last.op = "save_relationship" =>
            SelectSeq(get_relationships(relationships_db, None, None, None).value,
                      LAMBDA x : RelationshipTriple(x) = RelationshipTriple(last.arg[1]))
                = last.arg
    /\ last.op = "save_benchmark_score" =>
            SelectSeq(get_benchmark_scores(benchmarks_db, None, None, None).value,
                      LAMBDA x : ScoreTriple(x) = ScoreTriple(last.arg[1]))
                = last.arg

C10_Witness ==
    /\ last.op = "save_relationship" /\ last.prior = "replaced"
    /\ Len(get_relationships(relationships_db, None, None, None).value) = 2
    /\ DOMAIN last.arg[1].properties # {}

-----------------------------------------------------------------------------
(* EntityStore.get_top_performers (src/src/research/entity_store.py).      *)

Min(a, b) == IF a <= b THEN a ELSE b
Max(a, b) == IF a >= b THEN a ELSE b

\* s[:limit]: the first limit elements, and for a negative limit all but the
\* last -limit.
slice_to(s, limit) ==
    SubSeq(s, 1, IF limit >= 0 THEN Min(limit, Len(s)) ELSE Max(Len(s) + limit, 0))

\* Where sorted() places x among the already sorted elements: behind every
\* element that does not come after it, so that equal keys keep their order
\* (also with reverse=True).
RECURSIVE sorted_insert(_, _, _)
sorted_insert(done, x, reverse) ==
    IF done = <<>> THEN <<x>>
    ELSE IF (IF reverse THEN Head(done).key >= x.key ELSE Head(done).key <= x.key)
         THEN <<Head(done)>> \o sorted_insert(Tail(done), x, reverse)
         ELSE <<x>> \o done

\* sorted(items, key=..., reverse=...) on items [key, item].
RECURSIVE sorted_from(_, _, _)
sorted_from(done, items, reverse) ==
    IF items = <<>> THEN done
    ELSE sorted_from(sorted_insert(done, Head(items), reverse), Tail(items), reverse)

sorted(items, reverse) == sorted_from(<<>>, items, reverse)

\* sorted(scores, key=lambda x: x.score, reverse=higher_is_better).
sorted_scores_of(scores, higher_is_better) ==
    LET keyed == [i \in 1..Len(scores) |-> [key |-> scores[i].score, item |-> scores[i]]]
        out == sorted(keyed, higher_is_better)
    IN  [i \in 1..Len(out) |-> out[i].item]

\* The loop of get_top_performers over sorted_scores: one row per score whose
\* method get_entity finds.
RECURSIVE top_performers_rows(_, _, _, _)
top_performers_rows(d, scores, metric_name, benchmark_id) ==
    IF scores = <<>> THEN Returned(<<>>)
    ELSE LET method == get_entity(d, Head(scores).method_id)
             rest == top_performers_rows(d, Tail(scores), metric_name, benchmark_id)
         IN  IF method.status # "ok" THEN method
             ELSE IF rest.status # "ok" THEN rest
             ELSE Returned((IF method.value # None
                            THEN <<[method |-> method.value[1],
                                    score |-> Head(scores).score,
                                    metric |-> metric_name,
                                    benchmark |-> benchmark_id,
                                    metadata |-> Head(scores).metadata]>>
                            ELSE <<>>) \o rest.value)

\* A get_top_performers that resolves the methods first and truncates the
\* rows.
get_top_performers_rows_first(ed, bd, benchmark_id, metric_name, limit, higher_is_better) ==
    LET scores == get_benchmark_scores(bd, None, <<benchmark_id>>, <<metric_name>>)
        rows == top_performers_rows(ed,
                    sorted_scores_of(scores.value, higher_is_better),
                    metric_name, benchmark_id)
    IN  IF rows.status # "ok" THEN rows ELSE Returned(slice_to(rows.value, limit))

\* ed is the directory of entities_db, bd that of benchmarks_db.
get_top_performers(ed, bd, benchmark_id, metric_name, limit, higher_is_better) ==
    LET scores == get_benchmark_scores(bd, None, <<benchmark_id>>, <<metric_name>>)
    IN  IF scores.status # "ok" THEN scores
        ELSE top_performers_rows(ed,
                slice_to(sorted_scores_of(scores.value, higher_is_better), limit),
                metric_name, benchmark_id)

-----------------------------------------------------------------------------
(* ComparisonEngine (src/src/research/comparison_engine.py).               *)

ComparisonResult(entities, rankings, feature_matrix, summary) ==
    [entities |-> entities, rankings |-> rankings,
     feature_matrix |-> feature_matrix, summary |-> summary]

\* An f-string: its literal text with {} for each field, the strings put in
\* the fields, and the lines appended in a loop.
FString(text, fields, lines) == [text |-> text, fields |-> fields, lines |-> lines]

digit(n) == <<"0", "1", "2", "3", "4", "5", "6", "7", "8", "9">>[n + 1]

\* f"{score:.4f}" for a score held in hundredths (0.85 is 85).
format_4f(score) ==
    <<digit(score \div 100), ".", digit((score \div 10) % 10), digit(score % 10),
      "0", "0">>

\* The feature names in the order sorted() gives strings.
LexicalOrder == <<"desc", "entity_name", "task", "year">>

\* The placeholder of a missing feature, the str "N/A".
NA == StrVal(<<"N", "/", "A">>)

\* Entity.get_feature(key, default).
get_feature(entity, key, default) == get_or(entity.features, key, default)

\* A dict: its keys in insertion order and the value of each key.
Dict(keys, rows) == [keys |-> keys, rows |-> rows]
EmptyDict == Dict(<<>>, <<>>)

\* The keys of a dict written key by key: a key written again keeps the
\* place of its first write.
RECURSIVE first_occurrences(_)
first_occurrences(ks) ==
    IF ks = <<>> THEN <<>>
    ELSE LET front == first_occurrences(SubSeq(ks, 1, Len(ks) - 1))
         IN  IF ks[Len(ks)] \in Range(front) THEN front
             ELSE Append(front, ks[Len(ks)])

\* A feature matrix that lists the features in the order the entities hold
\* them instead of sorting them.
feature_names_unsorted(feature_keys) ==
    SelectSeq(<<"year", "task", "desc", "entity_name">>, LAMBDA k : k \in feature_keys)

\* sorted(list(feature_keys)).
feature_names(feature_keys) == SelectSeq(LexicalOrder, LAMBDA k : k \in feature_keys)

\* features is None or <<list of names>>.  The dict is written key by key:
\* entity_name first, then every feature, a later write replacing the value
\* of an earlier one of the same key.
_build_feature_matrix(entities, features) ==
    LET feature_keys == UNION {DOMAIN entities[i].features : i \in 1..Len(entities)}
        names == IF features = None THEN feature_names(feature_keys) ELSE features[1]
    IN  Dict(first_occurrences(<<"entity_name">> \o names),
             [k \in {"entity_name"} \cup Range(names) |->
                IF k \in Range(names)
                THEN [i \in 1..Len(entities) |-> get_feature(entities[i], k, NA)]
                ELSE [i \in 1..Len(entities) |-> StrVal(entities[i].name)]])

_generate_benchmark_summary(benchmark_id, metric_name, rankings, higher_is_better) ==
    IF rankings = <<>>
    THEN FString("No results found for {}", <<benchmark_id>>, <<>>)
    ELSE FString("Best performing method on {} ({}): {} with score {}\n\nTop performers:\n",
                 <<benchmark_id, metric_name, rankings[1].name,
                   format_4f(rankings[1].score)>>,
                 [i \in 1..Len(slice_to(rankings, 5)) |->
                    [rank |-> rankings[i].rank, name |-> rankings[i].name,
                     score |-> format_4f(rankings[i].score)]])

\* The rankings of compare_methods_on_benchmark, one per row of top_performers.
benchmark_rankings(top_performers, metric_name) ==
    [idx \in 1..Len(top_performers) |->
        [rank |-> idx, entity_id |-> top_performers[idx].method.id,
         name |-> top_performers[idx].method.name,
         score |-> top_performers[idx].score, metric |-> metric_name,
         metadata |-> top_performers[idx].metadata]]

compare_methods_on_benchmark(ed, bd, benchmark_id, metric_name, limit, higher_is_better) ==
    LET top_performers == get_top_performers(ed, bd, benchmark_id, metric_name,
                                             limit, higher_is_better)
        entities == [i \in 1..Len(top_performers.value) |->
                        top_performers.value[i].method]
        rankings == benchmark_rankings(top_performers.value, metric_name)
    IN  IF top_performers.status # "ok" THEN top_performers
        ELSE IF top_performers.value = <<>>
        THEN Returned(ComparisonResult(<<>>, <<>>, EmptyDict,
                FString("No results found for {} on metric {}",
                        <<benchmark_id, metric_name>>, <<>>)))
        ELSE Returned(ComparisonResult(entities, rankings,
                _build_feature_matrix(entities, None),
                _generate_benchmark_summary(benchmark_id, metric_name, rankings,
                                            higher_is_better)))

\* str(n) of a small count.
str_int(n) == <<digit(n)>>

\* len(entity.features).
feature_count(entity) == Cardinality(DOMAIN entity.features)

\* The loop of compare_entities_by_features over entity_ids.
RECURSIVE resolve_entities(_, _)
resolve_entities(ed, entity_ids) ==
    IF entity_ids = <<>> THEN Returned(<<>>)
    ELSE LET entity == get_entity(ed, Head(entity_ids))
             rest == resolve_entities(ed, Tail(entity_ids))
         IN  IF entity.status # "ok" THEN entity
             ELSE IF rest.status # "ok" THEN rest
             ELSE Returned(entity.value \o rest.value)

\* sorted(entities, key=lambda e: len(e.features), reverse=True).
sorted_by_feature_count(entities) ==
    LET keyed == [i \in 1..Len(entities) |->
                    [key |-> feature_count(entities[i]), item |-> entities[i]]]
        out == sorted(keyed, TRUE)
    IN  [i \in 1..Len(out) |-> out[i].item]

\* Rankings that keep the entities in the order they were asked for.
feature_rankings_unsorted(entities) ==
    [idx \in 1..Len(entities) |->
        [rank |-> idx, entity_id |-> entities[idx].id, name |-> entities[idx].name,
         feature_count |-> feature_count(entities[idx]),
         type |-> EntityTypeValue(entities[idx].entity_type)]]

\* The rankings of compare_entities_by_features.
feature_rankings(entities) ==
    LET ranked == sorted_by_feature_count(entities)
    IN  [idx \in 1..Len(ranked) |->
            [rank |-> idx, entity_id |-> ranked[idx].id, name |-> ranked[idx].name,
             feature_count |-> feature_count(ranked[idx]),
             type |-> EntityTypeValue(ranked[idx].entity_type)]]

_generate_feature_summary(entities, feature_matrix) ==
    FString("Comparing {} entities across {} features\n\n",
            <<str_int(Len(entities)), str_int(Len(feature_matrix.keys) - 1)>>,
            [i \in 1..Len(slice_to(entities, 3)) |->
                [name |-> entities[i].name,
                 features |-> str_int(feature_count(entities[i]))]])

\* entity_ids is a list of ids, features None or <<list of names>>.
compare_entities_by_features(ed, entity_ids, features) ==
    LET entities == resolve_entities(ed, entity_ids)
        feature_matrix == _build_feature_matrix(entities.value, features)
    IN  IF entities.status # "ok" THEN entities
        ELSE IF entities.value = <<>>
        THEN Returned(ComparisonResult(<<>>, <<>>, EmptyDict,
                FString("No entities found for comparison", <<>>, <<>>)))
        ELSE Returned(ComparisonResult(entities.value,
                feature_rankings(entities.value), feature_matrix,
                _generate_feature_summary(entities.value, feature_matrix)))

_generate_solution_summary(query, rankings) ==
    IF rankings = <<>>
    THEN FString("No solutions found for: {}", <<query>>, <<>>)
    ELSE FString("Best solutions for '{}':\n\n", <<query>>,
                 [i \in 1..Len(slice_to(rankings, 5)) |->
                    [rank |-> rankings[i].rank, name |-> rankings[i].name,
                     score |-> IF "score" \in DOMAIN rankings[i]
                               THEN format_4f(rankings[i].score) ELSE <<>>]])

\* A filter that lets the score of any method through.
scored_entities_keep_any(score, entity_ids) == TRUE

\* if score.method_id in entity_ids.
scored_entities_keep(score, entity_ids) == score.method_id \in Range(entity_ids)

\* The loop of find_best_solution over scores: the (entity, score) pairs, as
\* items for sorted().
RECURSIVE scored_entities_from(_, _, _)
scored_entities_from(ed, scores, entity_ids) ==
    IF scores = <<>> THEN Returned(<<>>)
    ELSE LET score == Head(scores)
             entity == get_entity(ed, score.method_id)
             rest == scored_entities_from(ed, Tail(scores), entity_ids)
         IN  IF ~scored_entities_keep(score, entity_ids) THEN rest
             ELSE IF entity.status # "ok" THEN entity
             ELSE IF rest.status # "ok" THEN rest
             ELSE Returned((IF entity.value # None
                            THEN <<[key |-> score.score, item |-> entity.value[1]]>>
                            ELSE <<>>) \o rest.value)

\* The entities and the rankings of the sorted and cut (entity, score) pairs.
score_rows(top, metric_name) ==
    Returned([entities |-> [i \in 1..Len(top) |-> top[i].item],
              rankings |-> [idx \in 1..Len(top) |->
                    [rank |-> idx, entity_id |-> top[idx].item.id,
                     name |-> top[idx].item.name, score |-> top[idx].key,
                     metric |-> metric_name]]])

\* scored_entities.sort(key=lambda x: x[1], reverse=True) and [:10].
top_scored(scored_entities, metric_name) ==
    IF scored_entities.status # "ok" THEN scored_entities
    ELSE score_rows(slice_to(sorted(scored_entities.value, TRUE), 10), metric_name)

\* The loop over the scores that get_benchmark_scores returned.
scored_ranking(ed, entities, metric_name, scores) ==
    IF scores.status # "ok" THEN scores
    ELSE top_scored(scored_entities_from(ed, scores.value,
                        [i \in 1..Len(entities) |-> entities[i].id]),
                    metric_name)

\* The branch of find_best_solution that ranks by score: entities and rankings.
ranked_by_score(ed, bd, entities, benchmark_id, metric_name) ==
    scored_ranking(ed, entities, metric_name[1],
                   get_benchmark_scores(bd, None, benchmark_id, metric_name))

\* The else branch of find_best_solution: entities and rankings.
feature_count_rows(top) ==
    Returned([entities |-> top,
              rankings |-> [idx \in 1..Len(top) |->
                    [rank |-> idx, entity_id |-> top[idx].id,
                     name |-> top[idx].name,
                     feature_count |-> feature_count(top[idx])]]])

ranked_as_found(entities) == feature_count_rows(slice_to(entities, 10))

\* The result built from the entities and rankings of either branch.
solution_result(query, ranked) ==
    IF ranked.status # "ok" THEN ranked
    ELSE Returned(ComparisonResult(ranked.value.entities, ranked.value.rankings,
            _build_feature_matrix(ranked.value.entities, None),
            _generate_solution_summary(query, ranked.value.rankings)))

\* find_best_solution after its search.
solution_of(ed, bd, query, benchmark_id, metric_name, entities) ==
    IF entities.status # "ok" THEN entities
    ELSE IF entities.value = <<>>
    THEN Returned(ComparisonResult(<<>>, <<>>, EmptyDict,
            FString("No methods found matching query: {}", <<query>>, <<>>)))
    ELSE solution_result(query,
            IF truthy(benchmark_id) /\ truthy(metric_name)
            THEN ranked_by_score(ed, bd, entities.value, benchmark_id, metric_name)
            ELSE ranked_as_found(entities.value))

\* find_best_solution but for its constraints argument, which it never reads;
\* benchmark_id and metric_name are None or <<str>>.
best_solution(ed, bd, query, benchmark_id, metric_name) ==
    solution_of(ed, bd, query, benchmark_id, metric_name,
                search_entities(ed, query, <<"METHOD">>))

\* A find_best_solution that returns nothing when constraints are given.
find_best_solution_constrained(ed, bd, query, benchmark_id, metric_name, constraints) ==
    IF constraints = None THEN best_solution(ed, bd, query, benchmark_id, metric_name)
    ELSE Returned(ComparisonResult(<<>>, <<>>, EmptyDict,
            FString("No methods found matching query: {}", <<query>>, <<>>)))

find_best_solution(ed, bd, query, benchmark_id, metric_name, constraints) ==
    best_solution(ed, bd, query, benchmark_id, metric_name)

-----------------------------------------------------------------------------
(* Ranking on a benchmark as a state machine: the methods and scores of    *)
(* the Entity Store, get_top_performers and compare_methods_on_benchmark.  *)

\* The files of entities_db and benchmarks_db together.
MaxTopFiles == 5

M0 == <<"m", "0">>
M2 == <<"m", "2">>
F1 == <<"f", "1">>

\* The methods saved; no entity is ever saved under the id M2.
TopMethods ==
    { [id |-> M0, name |-> NameRAG, entity_type |-> "METHOD",
       features |-> <<>>, metadata |-> <<>>,
       created_at |-> [second |-> 1, microsecond |-> 0]],
      [id |-> IdPlain, name |-> NameCol, entity_type |-> "METHOD",
       features |-> [year |-> NumVal(<<"7">>)], metadata |-> <<>>,
       created_at |-> [second |-> 1, microsecond |-> 0]] }

\* The scores saved: on (IdB, F1) one or the other score of M0, one of the
\* second method equal to the higher of them, and one of M2; and one score
\* on another benchmark.
TopScores ==
    { [method_id |-> M0, benchmark_id |-> IdB, metric_name |-> F1,
       score |-> 80, metadata |-> <<>>],
      [method_id |-> M0, benchmark_id |-> IdB, metric_name |-> F1,
       score |-> 90, metadata |-> [hw |-> StrVal(<<"x">>)]],
      [method_id |-> IdPlain, benchmark_id |-> IdB, metric_name |-> F1,
       score |-> 90, metadata |-> <<>>],
      [method_id |-> M2, benchmark_id |-> IdB, metric_name |-> F1,
       score |-> 85, metadata |-> <<>>],
      [method_id |-> IdPlain, benchmark_id |-> IdC, metric_name |-> F1,
       score |-> 95, metadata |-> <<>>] }

\* The arguments of the ranking calls.
TopCall(benchmark_id, metric_name, limit, higher_is_better) ==
    [benchmark_id |-> benchmark_id, metric_name |-> metric_name, limit |-> limit,
     higher_is_better |-> higher_is_better]

\* Limits below, at and above the number of scores, in both directions; a
\* negative limit; an empty benchmark id.
TopCalls ==
    { TopCall(IdB, F1, 0, TRUE), TopCall(IdB, F1, 1, TRUE), TopCall(IdB, F1, 1, FALSE),
      TopCall(IdB, F1, 2, TRUE), TopCall(IdB, F1, 2, FALSE),
      TopCall(IdB, F1, -1, TRUE), TopCall(Empty, F1, 2, TRUE) }

TopInit ==
    /\ db = <<>>
    /\ entities_db = <<>>
    /\ relationships_db = <<>>
    /\ benchmarks_db = <<>>
    /\ saved = <<>>
    /\ clean = <<>>
    /\ deleted = <<>>
    /\ last = NoOp

TopSaveEntity ==
    \E entity \in TopMethods :
        /\ HasRoom(entities_db, _filename(entity.id), Len(benchmarks_db), MaxTopFiles)
        /\ \E pos \in Positions(entities_db, _filename(entity.id)) :
                entities_db' = save_entity(entities_db, entity, pos)
        /\ last' = Op("save_entity", entity.id, <<entity>>, Returned(None), "")
        /\ UNCHANGED <<db, relationships_db, benchmarks_db, saved, clean, deleted>>

\* delete_entity of a stored method; its scores stay.
TopDeleteEntity ==
    \E entity \in TopMethods :
        /\ exists(entities_db, _filename(entity.id))
        /\ entities_db' = delete_entity(entities_db, entity.id).dir
        /\ last' = Op("delete_entity", entity.id, <<>>,
                      delete_entity(entities_db, entity.id).out, "")
        /\ UNCHANGED <<db, relationships_db, benchmarks_db, saved, clean, deleted>>

TopSaveBenchmarkScore ==
    \E s \in TopScores :
        /\ HasRoom(benchmarks_db, _filename(score_id(s)), Len(entities_db), MaxTopFiles)
        /\ \E pos \in Positions(benchmarks_db, _filename(score_id(s))) :
                benchmarks_db' = save_benchmark_score(benchmarks_db, s, pos)
        /\ last' = Op("save_benchmark_score", score_id(s), <<s>>, Returned(None), "")
        /\ UNCHANGED <<db, entities_db, relationships_db, saved, clean, deleted>>

TopGetTopPerformers ==
    \E c \in TopCalls :
        /\ last' = Op("get_top_performers", <<>>, c,
                      get_top_performers(entities_db, benchmarks_db, c.benchmark_id,
                            c.metric_name, c.limit, c.higher_is_better), "")
        /\ UNCHANGED <<db, stores, saved, clean, deleted>>

TopCompareMethodsOnBenchmark ==
    \E c \in TopCalls :
        /\ last' = Op("compare_methods_on_benchmark", <<>>, c,
                      compare_methods_on_benchmark(entities_db, benchmarks_db,
                            c.benchmark_id, c.metric_name, c.limit,
                            c.higher_is_better), "")
        /\ UNCHANGED <<db, stores, saved, clean, deleted>>

TopNext ==
    TopSaveEntity \/ TopDeleteEntity \/ TopSaveBenchmarkScore
        \/ TopGetTopPerformers \/ TopCompareMethodsOnBenchmark

SpecBenchmarkRanking == TopInit /\ [][TopNext]_vars

-----------------------------------------------------------------------------
(* Entity Store claims: get_top_performers.                                *)

\* The stored scores on the benchmark and metric of call c.
MatchingScores(bd, c) ==
    { s \in StoredScores(bd) :
        s.benchmark_id = c.benchmark_id /\ s.metric_name = c.metric_name }

\* Row x is not ranked behind row y in the direction of call c.
InOrder(x, y, c) ==
    IF c.higher_is_better THEN x.score >= y.score ELSE x.score <= y.score

Resolves(ed, id) == get_entity(ed, id) \notin {Returned(None), Raised("KeyError")}

\* C11: get_top_performers(benchmark_id, metric_name, limit,
\* higher_is_better) with limit >= 0 returns at most limit rows, all for
\* scores matching both benchmark_id and metric_name, ordered by score
\* descending when higher_is_better and ascending when not; when every
\* matching score's method exists the rows are exactly the first limit
\* scores of that ordering.
C11_TopPerformers ==
    \A c \in TopCalls :
        c.limit >= 0 =>
            LET top == get_top_performers(entities_db, benchmarks_db, c.benchmark_id,
                            c.metric_name, c.limit, c.higher_is_better)
                rows == top.value
                matching == MatchingScores(benchmarks_db, c)
            IN  /\ top.status = "ok"
                /\ Len(rows) <= c.limit
                /\ \A i \in 1..Len(rows) :
                        \E s \in matching :
                            /\ rows[i].method.id = s.method_id
                            /\ rows[i].score = s.score
                            /\ rows[i].metadata = s.metadata
                            /\ rows[i].benchmark = s.benchmark_id
                            /\ rows[i].metric = s.metric_name
                /\ \A i, j \in 1..Len(rows) : i < j => InOrder(rows[i], rows[j], c)
                /\ (\A s \in matching : Resolves(entities_db, s.method_id)) =>
                        /\ Len(rows) = Min(c.limit, Cardinality(matching))
                        /\ \A s \in matching :
                                (\A i \in 1..Len(rows) : rows[i].method.id # s.method_id)
                                    => \A i \in 1..Len(rows) : InOrder(rows[i], s, c)

\* Score i of the sequence is ranked before score j: its score is better in
\* the direction of call c, or equal and listed earlier.
RankedBefore(scores, i, j, c) ==
    \/ scores[i].score # scores[j].score /\ InOrder(scores[i], scores[j], c)
    \/ scores[i].score = scores[j].score /\ i < j

\* The scores in ranking order.
Ranking(scores, c) ==
    [r \in 1..Len(scores) |->
        scores[CHOOSE i \in 1..Len(scores) :
                    Cardinality({j \in 1..Len(scores) : RankedBefore(scores, j, i, c)})
                        = r - 1]]

\* The row of a score whose method resolves.
RowOf(ed, s, c) ==
    [method |-> get_entity(ed, s.method_id).value[1], score |-> s.score,
     metric |-> c.metric_name, benchmark |-> c.benchmark_id, metadata |-> s.metadata]

\* C12: get_top_performers sorts the matching scores, truncates to limit and
\* only then resolves each surviving score's method_id: a score whose
\* method_id resolves to no stored entity is omitted without any error,
\* every returned row carries an existing entity, and an omitted score is not
\* replaced by the next-ranked score beyond the limit.
C12_TruncateThenResolve ==
    \A c \in TopCalls :
        LET top == get_top_performers(entities_db, benchmarks_db, c.benchmark_id,
                        c.metric_name, c.limit, c.higher_is_better)
            selected == get_benchmark_scores(benchmarks_db, None, <<c.benchmark_id>>,
                                             <<c.metric_name>>).value
            surviving == SubSeq(Ranking(selected, c), 1, Min(c.limit, Len(selected)))
            resolving == SelectSeq(surviving, LAMBDA s : Resolves(entities_db, s.method_id))
        IN  /\ top.status = "ok"
            /\ \A i \in 1..Len(top.value) :
                    /\ Resolves(entities_db, top.value[i].method.id)
                    /\ <<top.value[i].method>> =
                            get_entity(entities_db, top.value[i].method.id).value
            /\ c.limit >= 0 =>
                    top.value = [i \in 1..Len(resolving) |->
                                    RowOf(entities_db, resolving[i], c)]

\* The best score within the limit has no method and the result is empty,
\* although a score ranked behind it has one.
C12_Witness ==
    /\ last.op = "get_top_performers" /\ last.arg.limit = 1
    /\ last.arg.benchmark_id = IdB
    /\ last.status = "ok" /\ last.value = <<>>
    /\ \E s \in MatchingScores(benchmarks_db, last.arg) :
            Resolves(entities_db, s.method_id)
    /\ \E i \in 1..Len(entities_db) : entities_db[i].name = _filename(IdPlain)

-----------------------------------------------------------------------------
(* Comparison Engine claims: compare_methods_on_benchmark.                 *)

\* The stored scores on the benchmark and metric of call c, as listed.
MatchingListed(bd, c) ==
    SelectSeq(get_benchmark_scores(bd, None, None, None).value,
              LAMBDA s : s \in MatchingScores(bd, c))

\* Every matching score within the limit of call c is dangling.
AllWithinLimitDangling(ed, bd, c) ==
    LET listed == MatchingListed(bd, c)
    IN  \A r \in 1..Min(c.limit, Len(listed)) :
            ~Resolves(ed, Ranking(listed, c)[r].method_id)

\* The summary says what was looked for.
Explains(summary, c) ==
    /\ summary.text = "No results found for {} on metric {}"
    /\ summary.fields = <<c.benchmark_id, c.metric_name>>

\* C13: compare_methods_on_benchmark returns, without raising, a result with
\* empty entities, empty rankings, an empty feature_matrix and an explanatory
\* summary whenever no score exists for (benchmark_id, metric_name), and also
\* whenever every matching score within the limit is dangling.
C13_EmptyComparison ==
    \A c \in TopCalls :
        LET r == compare_methods_on_benchmark(entities_db, benchmarks_db,
                        c.benchmark_id, c.metric_name, c.limit, c.higher_is_better)
        IN  (\/ MatchingScores(benchmarks_db, c) = {}
             \/ (c.limit >= 0 /\ AllWithinLimitDangling(entities_db, benchmarks_db, c)))
                => /\ r.status = "ok"
                   /\ r.value.entities = <<>>
                   /\ r.value.rankings = <<>>
                   /\ r.value.feature_matrix = EmptyDict
                   /\ Explains(r.value.summary, c)

\* C14: for a non-empty compare_methods_on_benchmark result, entities and
\* rankings have the same length (min(limit, number of resolvable matching
\* scores) when all methods resolve), rankings[i].rank = i+1 starting at 1,
\* and rankings[i].entity_id is the id of entities[i], in the order produced
\* by get_top_performers.
C14_RankingsAlignWithEntities ==
    \A c \in TopCalls :
        LET r == compare_methods_on_benchmark(entities_db, benchmarks_db,
                        c.benchmark_id, c.metric_name, c.limit, c.higher_is_better)
            top == get_top_performers(entities_db, benchmarks_db, c.benchmark_id,
                        c.metric_name, c.limit, c.higher_is_better).value
            matching == MatchingScores(benchmarks_db, c)
        IN  (r.status = "ok" /\ r.value.entities # <<>>) =>
                /\ Len(r.value.entities) = Len(r.value.rankings)
                /\ (\A s \in matching : Resolves(entities_db, s.method_id)) =>
                        Len(r.value.entities) = Min(c.limit, Cardinality(matching))
                /\ \A i \in 1..Len(r.value.rankings) :
                        /\ r.value.rankings[i].rank = i
                        /\ r.value.rankings[i].entity_id = r.value.entities[i].id
                /\ r.value.entities = [i \in 1..Len(top) |-> top[i].method]

-----------------------------------------------------------------------------
(* Comparison by features as a state machine: the entities of the store    *)
(* and compare_entities_by_features.                                       *)

\* The entities saved: every shape under each of two ids.
FeatureEntities == {e \in Entities : e.id \in {IdPlain, KeyAB_under}}

\* The lists of ids compared: in both orders, with an id twice, with an id
\* (M2) no entity is saved under, and the empty list.
IdLists ==
    { <<IdPlain, KeyAB_under>>, <<KeyAB_under, IdPlain>>,
      <<IdPlain, M2, KeyAB_under, IdPlain>>, <<M2>>, <<>> }

\* The feature lists supplied: none, features some entities lack, a name
\* twice, and the empty list.
FeatureLists ==
    { None, <<<<"year">>>>, <<<<"task", "year", "task">>>>, <<<<>>>> }

FeatInit ==
    /\ db = <<>>
    /\ entities_db = <<>>
    /\ relationships_db = <<>>
    /\ benchmarks_db = <<>>
    /\ saved = <<>>
    /\ clean = <<>>
    /\ deleted = <<>>
    /\ last = NoOp

FeatSaveEntity ==
    \E entity \in FeatureEntities :
        /\ \E pos \in Positions(entities_db, _filename(entity.id)) :
                entities_db' = save_entity(entities_db, entity, pos)
        /\ last' = Op("save_entity", entity.id, <<entity>>, Returned(None), "")
        /\ UNCHANGED <<db, relationships_db, benchmarks_db, saved, clean, deleted>>

FeatDeleteEntity ==
    \E entity \in FeatureEntities :
        /\ exists(entities_db, _filename(entity.id))
        /\ entities_db' = delete_entity(entities_db, entity.id).dir
        /\ last' = Op("delete_entity", entity.id, <<>>,
                      delete_entity(entities_db, entity.id).out, "")
        /\ UNCHANGED <<db, relationships_db, benchmarks_db, saved, clean, deleted>>

FeatCompareEntitiesByFeatures ==
    \E ids \in IdLists, features \in FeatureLists :
        /\ last' = Op("compare_entities_by_features", <<>>,
                      [entity_ids |-> ids, features |-> features],
                      compare_entities_by_features(entities_db, ids, features), "")
        /\ UNCHANGED <<db, stores, saved, clean, deleted>>

FeatNext == FeatSaveEntity \/ FeatDeleteEntity \/ FeatCompareEntitiesByFeatures

SpecFeatureComparison == FeatInit /\ [][FeatNext]_vars

-----------------------------------------------------------------------------
(* Comparison Engine claims: compare_entities_by_features.                 *)

\* The entities the ids resolve to, in the order of the ids.
ResolvedEntities(ed, ids) ==
    LET resolving == SelectSeq(ids, LAMBDA id : Resolves(ed, id))
    IN  [i \in 1..Len(resolving) |-> get_entity(ed, resolving[i]).value[1]]

\* The value of feature k in the row of entity e.
Cell(e, k) == IF k \in DOMAIN e.features THEN e.features[k] ELSE NA

Described(e) ==
    [entity_id |-> e.id, name |-> e.name, feature_count |-> feature_count(e)]

\* C16: compare_entities_by_features ranks the resolved entities by
\* descending count of their features: rankings[i].rank = i+1, feature_count
\* never increases along the rankings, and the rankings cover exactly the
\* resolved entities, one row per resolved id occurrence.
C16_RankedByFeatureCount ==
    \A ids \in IdLists, features \in FeatureLists :
        LET r == compare_entities_by_features(entities_db, ids, features)
            ents == ResolvedEntities(entities_db, ids)
            rows == r.value.rankings
        IN  /\ r.status = "ok"
            /\ Len(rows) = Len(ents)
            /\ \A i \in 1..Len(rows) : rows[i].rank = i
            /\ \A i \in 1..(Len(rows) - 1) :
                    rows[i].feature_count >= rows[i + 1].feature_count
            /\ \A i \in 1..Len(ents) :
                    Cardinality({j \in 1..Len(ents) : Described(ents[j]) = Described(ents[i])})
                        = Cardinality({j \in 1..Len(rows) :
                                /\ rows[j].entity_id = ents[i].id
                                /\ rows[j].name = ents[i].name
                                /\ rows[j].feature_count = feature_count(ents[i])})

C16_Witness ==
    /\ last.op = "compare_entities_by_features"
    /\ Len(last.value.rankings) = 3
    /\ last.value.rankings[1].entity_id # last.value.entities[1].id
    /\ last.value.rankings[1].feature_count > last.value.rankings[3].feature_count

-----------------------------------------------------------------------------
(* find_best_solution as a state machine.  The stores start from a prepared *)
(* population of methods, each with a score on (IdB, F1), large enough for  *)
(* the cut at ten to drop something; saves and deletes then change it.      *)

\* The number of prepared methods.
MaxSolutionMethods == 11

Letters == <<"a", "b", "c", "d", "e", "f", "g", "h", "i", "j", "k", "l", "m">>
SolutionId(i) == <<Letters[i]>>
IdZ == <<"z">>

\* The i-th prepared method: every name holds "rag"; the features are three,
\* none or one in turn.
PreparedMethod(i) ==
    [id |-> SolutionId(i), name |-> NameRAG \o <<Letters[i]>>, entity_type |-> "METHOD",
     features |-> IF i % 3 = 0 THEN [desc |-> StrVal(<<"R", "a", "g">>),
                                     task |-> StrVal(<<"r", "A", "G", "7">>),
                                     year |-> NumVal(<<"7">>)]
                  ELSE IF i % 3 = 1 THEN <<>>
                  ELSE [year |-> NumVal(<<"7">>)],
     metadata |-> <<>>, created_at |-> [second |-> 1, microsecond |-> 0]]

\* Its score: out of step with the ids, and shared with another method.
PreparedScore(i) ==
    [method_id |-> SolutionId(i), benchmark_id |-> IdB, metric_name |-> F1,
     score |-> 50 + (((i * 7) % 11) % 6), metadata |-> <<>>]

\* The directories after saving the first n of them, listed in the order of
\* the ids (ascending) or against it: each file is the one the save writes.
prepared_entities(n, ascending) ==
    [i \in 1..n |->
        save_entity(<<>>, PreparedMethod(IF ascending THEN i ELSE n + 1 - i), 1)[1]]

prepared_scores(n, ascending) ==
    [i \in 1..n |->
        save_benchmark_score(<<>>, PreparedScore(IF ascending THEN i ELSE n + 1 - i), 1)[1]]

\* Where a new file shows up in the listing: first or last.
Ends(d, name) == IF exists(d, name) THEN {1} ELSE {1, Len(d) + 1}

\* What is saved under the first id afterwards: a method with three
\* features, a paper of the same name, a method that no query matches.
SolutionEntities ==
    { [id |-> SolutionId(1), name |-> NameRAG, entity_type |-> "METHOD",
       features |-> [desc |-> StrVal(<<"R", "a", "g">>),
                     task |-> StrVal(<<"r", "A", "G", "7">>),
                     year |-> NumVal(<<"7">>)],
       metadata |-> <<>>, created_at |-> [second |-> 2, microsecond |-> 0]],
      [id |-> SolutionId(1), name |-> NameRAG, entity_type |-> "PAPER",
       features |-> <<>>, metadata |-> <<>>,
       created_at |-> [second |-> 2, microsecond |-> 0]],
      [id |-> SolutionId(1), name |-> NameCol, entity_type |-> "METHOD",
       features |-> <<>>, metadata |-> <<>>,
       created_at |-> [second |-> 2, microsecond |-> 0]] }

\* The scores saved afterwards: the highest score for the first method, and
\* a higher one for a method that is not stored.
SolutionScores ==
    { [method_id |-> SolutionId(1), benchmark_id |-> IdB, metric_name |-> F1,
       score |-> 99, metadata |-> <<>>],
      [method_id |-> IdZ, benchmark_id |-> IdB, metric_name |-> F1,
       score |-> 100, metadata |-> <<>>] }

SolutionCall(query, benchmark_id, metric_name, constraints) ==
    [query |-> query, benchmark_id |-> benchmark_id, metric_name |-> metric_name,
     constraints |-> constraints]

\* constraints={"year": ">=2023"}, as the docstring has it.
YearConstraint == [year |-> StrVal(<<">", "=", "2", "0", "2", "3">>)]

QueryRag == <<"R", "a", "g">>
QueryNone == <<"z", "z">>

\* A query that matches and one that does not; benchmark and metric both
\* there, one or both of them None, the benchmark id empty; with constraints
\* and without.
SolutionCalls ==
    { SolutionCall(QueryRag, <<IdB>>, <<F1>>, None),
      SolutionCall(QueryRag, <<IdB>>, <<F1>>, <<YearConstraint>>),
      SolutionCall(QueryRag, None, None, None),
      SolutionCall(QueryRag, None, None, <<YearConstraint>>),
      SolutionCall(QueryRag, <<IdB>>, None, None),
      SolutionCall(QueryRag, <<Empty>>, <<F1>>, <<YearConstraint>>),
      SolutionCall(QueryNone, <<IdB>>, <<F1>>, <<YearConstraint>>),
      SolutionCall(QueryNone, None, None, None) }

SolInit ==
    /\ db = <<>>
    /\ relationships_db = <<>>
    /\ saved = <<>>
    /\ clean = <<>>
    /\ deleted = <<>>
    /\ last = NoOp
    /\ \E n \in {0, 2, MaxSolutionMethods}, ascending \in BOOLEAN :
            /\ entities_db = prepared_entities(n, ascending)
            /\ benchmarks_db = prepared_scores(n, ascending)

SolSaveEntity ==
    \E entity \in SolutionEntities :
        /\ \E pos \in Ends(entities_db, _filename(entity.id)) :
                entities_db' = save_entity(entities_db, entity, pos)
        /\ last' = Op("save_entity", entity.id, <<entity>>, Returned(None), "")
        /\ UNCHANGED <<db, relationships_db, benchmarks_db, saved, clean, deleted>>

SolDeleteEntity ==
    /\ exists(entities_db, _filename(SolutionId(1)))
    /\ entities_db' = delete_entity(entities_db, SolutionId(1)).dir
    /\ last' = Op("delete_entity", SolutionId(1), <<>>,
                  delete_entity(entities_db, SolutionId(1)).out, "")
    /\ UNCHANGED <<db, relationships_db, benchmarks_db, saved, clean, deleted>>

SolSaveBenchmarkScore ==
    \E s \in SolutionScores :
        /\ \E pos \in Ends(benchmarks_db, _filename(score_id(s))) :
                benchmarks_db' = save_benchmark_score(benchmarks_db, s, pos)
        /\ last' = Op("save_benchmark_score", score_id(s), <<s>>, Returned(None), "")
        /\ UNCHANGED <<db, entities_db, relationships_db, saved, clean, deleted>>

SolFindBestSolution ==
    \E c \in SolutionCalls :
        /\ last' = Op("find_best_solution", <<>>, c,
                      find_best_solution(entities_db, benchmarks_db, c.query,
                            c.benchmark_id, c.metric_name, c.constraints), "")
        /\ UNCHANGED <<db, stores, saved, clean, deleted>>

SolNext ==
    SolSaveEntity \/ SolDeleteEntity \/ SolSaveBenchmarkScore \/ SolFindBestSolution

SpecFindBestSolution == SolInit /\ [][SolNext]_vars

-----------------------------------------------------------------------------
(* Claims about find_best_solution.                                         *)

\* An optional argument is given when it is there and not empty.
Given(x) == x # None /\ x[1] # <<>>

Scored(c) == Given(c.benchmark_id) /\ Given(c.metric_name)

FindBest(c) ==
    find_best_solution(entities_db, benchmarks_db, c.query, c.benchmark_id,
                       c.metric_name, c.constraints)

\* The METHOD-type search hits of a query.
Hits(query) == search_entities(entities_db, query, <<"METHOD">>).value

\* The stored scores of entity e on the benchmark and metric of call c.
ScoresOf(e, c) ==
    { s.score : s \in { t \in Range(get_benchmark_scores(benchmarks_db, None,
                                        c.benchmark_id, c.metric_name).value) :
                            t.method_id = e.id } }

C18_RankedByFeatureCount ==
    \A c \in {x \in SolutionCalls : ~Scored(x)} :
        LET r == FindBest(c)
            hits == Hits(c.query)
            rankings == r.value.rankings
        IN  /\ r.status = "ok"
            /\ Len(rankings) = Min(10, Len(hits))
            /\ \A i \in 1..(Len(rankings) - 1) :
                    rankings[i].feature_count >= rankings[i + 1].feature_count
            /\ \A e \in Range(hits) \ Range(r.value.entities) :
                    \A i \in 1..Len(rankings) :
                        feature_count(e) <= rankings[i].feature_count

\* C19: the constraints argument of find_best_solution is a no-op: in every
\* state of the stores, for every query, benchmark_id and metric_name, two
\* calls that differ only in constraints return the same entities, rankings,
\* feature_matrix and summary.
C19_ConstraintsIgnored ==
    \A c \in {x \in SolutionCalls : x.constraints # None} :
        FindBest(c) = FindBest([c EXCEPT !.constraints = None])

\* A call with constraints that returned solutions, ranked by score or not.
C19_Witness ==
    /\ last.op = "find_best_solution"
    /\ last.arg.constraints = <<YearConstraint>>
    /\ Len(last.value.entities) > 1
    /\ Scored(last.arg)

-----------------------------------------------------------------------------
(* Claims about missing data.                                               *)

\* C20: no Entity Store operation raises because the data it addresses is
\* missing: applied to an id that has no file, get_entity and delete_entity
\* complete and yield None, and list_entities and search_entities with a
\* filter or query that matches nothing stored complete and yield an empty
\* list.
C20_MissingDataNeverRaises ==
    /\ \A id \in EntityIds :
            ~exists(entities_db, _filename(id)) =>
                /\ get_entity(entities_db, id) = Returned(None)
                /\ delete_entity(entities_db, id).out = Returned(None)
    /\ \A t \in EntityTypes :
            (\A id \in EntityIds : saved[id] # <<>> => saved[id][1].entity_type # t) =>
                /\ list_entities(entities_db, <<t>>) = Returned(<<>>)
                /\ \A q \in Queries :
                        search_entities(entities_db, q, <<t>>) = Returned(<<>>)

-----------------------------------------------------------------------------
(* Malformed entity records.  A file of the entities directory is written  *)
(* by save_entity, cut short by a crash, or written through the Record     *)
(* Store with data that is no entity.                                       *)

\* Data that Entity.from_dict does not accept: a required field missing, and
\* an entity_type no member of EntityType has.
MalformedData ==
    { [id |-> IdPlain, entity_type |-> "method"],
      [id |-> IdPlain, name |-> NameRAG, entity_type |-> "gadget"] }

MalSaveEntity ==
    \E entity \in TopMethods :
        /\ HasRoom(entities_db, _filename(entity.id), 0, MaxDbFiles)
        /\ \E pos \in Positions(entities_db, _filename(entity.id)) :
                entities_db' = save_entity(entities_db, entity, pos)
        /\ last' = Op("save_entity", entity.id, <<entity>>, Returned(None), "")
        /\ UNCHANGED <<db, relationships_db, benchmarks_db, saved, clean, deleted>>

\* save_entity stopped between open(path, "w") and the end of json.dump.
MalSaveInterrupted ==
    \E entity \in TopMethods :
        /\ HasRoom(entities_db, _filename(entity.id), 0, MaxDbFiles)
        /\ \E pos \in Positions(entities_db, _filename(entity.id)) :
                entities_db' = WriteFile(entities_db, _filename(entity.id),
                                         Unparsable, pos)
        /\ last' = Op("save_interrupted", entity.id, <<>>, Raised("crash"), "")
        /\ UNCHANGED <<db, relationships_db, benchmarks_db, saved, clean, deleted>>

\* LocalFileDB(entities dir).save(key, data) with data that is no entity.
MalSaveRecord ==
    \E data \in MalformedData :
        /\ HasRoom(entities_db, _filename(data.id), 0, MaxDbFiles)
        /\ \E pos \in Positions(entities_db, _filename(data.id)) :
                entities_db' = save(entities_db, data.id, data, pos)
        /\ last' = Op("save", data.id, <<data>>, Returned(None), "")
        /\ UNCHANGED <<db, relationships_db, benchmarks_db, saved, clean, deleted>>

MalGetEntity ==
    \E entity \in TopMethods :
        /\ last' = Op("get_entity", entity.id, <<>>,
                      get_entity(entities_db, entity.id), "")
        /\ UNCHANGED <<db, stores, saved, clean, deleted>>

MalListEntities ==
    \E t \in TypeFilters :
        /\ last' = Op("list_entities", <<>>, t, list_entities(entities_db, t), "")
        /\ UNCHANGED <<db, stores, saved, clean, deleted>>

MalSearchEntities ==
    \E q \in Queries :
        /\ last' = Op("search_entities", q, None,
                      search_entities(entities_db, q, None), "")
        /\ UNCHANGED <<db, stores, saved, clean, deleted>>

MalNext ==
    MalSaveEntity \/ MalSaveInterrupted \/ MalSaveRecord \/ MalGetEntity
        \/ MalListEntities \/ MalSearchEntities

SpecMalformedEntities == TopInit /\ [][MalNext]_vars

-----------------------------------------------------------------------------
(* Claims about malformed records.                                          *)

\* A file that holds an entity.
WellFormed(file) ==
    file.content.parsable /\ Entity_from_dict(file.content.data).status = "ok"

\* C21: a malformed stored record (unparsable file, missing required field,
\* unrecognised entity_type) is never surfaced to a caller of the Entity
\* Store read operations: get_entity, list_entities and search_entities do
\* not raise, get_entity returns None for it, and list_entities returns the
\* entities of the remaining well-formed records.
C21_MalformedNeverSurfaces ==
    LET good == SelectSeq(entities_db, WellFormed)
    IN  /\ \A entity \in TopMethods :
                /\ get_entity(entities_db, entity.id).status = "ok"
                /\ (\A i \in 1..Len(good) : good[i].content.key # entity.id)
                        => get_entity(entities_db, entity.id) = Returned(None)
        /\ list_entities(entities_db, None) =
                Returned([i \in 1..Len(good) |->
                            Entity_from_dict(good[i].content.data).value[1]])
        /\ \A q \in Queries : search_entities(entities_db, q, None).status = "ok"

-----------------------------------------------------------------------------
(* to_dict and from_dict of the three record kinds, applied to one record. *)

\* Timestamps with and without a fraction of a second.
Timestamps == {[second |-> 1, microsecond |-> 0], [second |-> 2, microsecond |-> 5]}

\* Feature, metadata and property dicts: empty, and with a str and a number.
Dicts == {<<>>, [desc |-> StrVal(<<"R", "a", "g">>), year |-> NumVal(<<"7">>)]}

RoundTripEntities ==
    { [id |-> i, name |-> NameRAG, entity_type |-> t, features |-> f,
       metadata |-> f, created_at |-> at] :
        i \in {IdPlain, Empty}, t \in EntityTypeMembers, f \in Dicts, at \in Timestamps }

RoundTripRelationships ==
    { [source_id |-> IdA, target_id |-> i, relation_type |-> t, properties |-> f,
       confidence |-> 50, created_at |-> at] :
        i \in {IdB, Empty}, t \in RelationTypeMembers, f \in Dicts, at \in Timestamps }

RoundTripScores ==
    { [method_id |-> IdA, benchmark_id |-> i, metric_name |-> F1, score |-> n,
       metadata |-> f] :
        i \in {IdB, Empty}, n \in {0, 80}, f \in Dicts }

\* The record x is kept in `saved`.
RtInit ==
    /\ db = <<>>
    /\ entities_db = <<>>
    /\ relationships_db = <<>>
    /\ benchmarks_db = <<>>
    /\ clean = <<>>
    /\ deleted = <<>>
    /\ last = NoOp
    /\ \/ \E x \in RoundTripEntities : saved = [kind |-> "Entity", x |-> x]
       \/ \E x \in RoundTripRelationships : saved = [kind |-> "EntityRelationship", x |-> x]
       \/ \E x \in RoundTripScores : saved = [kind |-> "BenchmarkScore", x |-> x]

RtEntity ==
    /\ saved.kind = "Entity"
    /\ last' = Op("Entity.from_dict", <<>>, Entity_to_dict(saved.x),
                  Entity_from_dict(Entity_to_dict(saved.x)), "")
    /\ UNCHANGED <<db, stores, saved, clean, deleted>>

RtEntityRelationship ==
    /\ saved.kind = "EntityRelationship"
    /\ last' = Op("EntityRelationship.from_dict", <<>>,
                  EntityRelationship_to_dict(saved.x),
                  EntityRelationship_from_dict(EntityRelationship_to_dict(saved.x)), "")
    /\ UNCHANGED <<db, stores, saved, clean, deleted>>

\* BenchmarkScore has no from_dict: the store rebuilds it with
\* BenchmarkScore(**data).
RtBenchmarkScore ==
    /\ saved.kind = "BenchmarkScore"
    /\ last' = Op("BenchmarkScore", <<>>, BenchmarkScore_to_dict(saved.x),
                  BenchmarkScore(BenchmarkScore_to_dict(saved.x)), "")
    /\ UNCHANGED <<db, stores, saved, clean, deleted>>

RtNext == RtEntity \/ RtEntityRelationship \/ RtBenchmarkScore

SpecRoundTrip == RtInit /\ [][RtNext]_vars

-----------------------------------------------------------------------------
(* from_dict applied to one dict, well-formed or not.                       *)

\* The dict d with only the fields of `fields`.
Restrict(d, fields) == [f \in fields |-> d[f]]

\* Entity dicts: any subset of the fields; entity_type a value of the enum,
\* the name of a member, or a string that is neither.
EntityDicts ==
    { Restrict([id |-> IdPlain, name |-> NameRAG, entity_type |-> t,
                features |-> <<>>, metadata |-> <<>>, created_at |-> <<2, 5>>],
               fields) :
        t \in {"method", "METHOD", "gadget"},
        fields \in SUBSET {"id", "name", "entity_type", "features", "metadata",
                           "created_at"} }

RelationshipDicts ==
    { Restrict([source_id |-> IdA, target_id |-> IdB, relation_type |-> t,
                properties |-> <<>>, confidence |-> 50, created_at |-> <<2, 5>>],
               fields) :
        t \in {<<"u", "s", "e", "s">>, <<"U", "S", "E", "S">>, <<"o", "w", "n", "s">>},
        fields \in SUBSET {"source_id", "target_id", "relation_type", "properties",
                           "confidence", "created_at"} }

\* The dict is kept in `saved`.
FdInit ==
    /\ db = <<>>
    /\ entities_db = <<>>
    /\ relationships_db = <<>>
    /\ benchmarks_db = <<>>
    /\ clean = <<>>
    /\ deleted = <<>>
    /\ last = NoOp
    /\ \/ \E x \in EntityDicts : saved = [kind |-> "Entity", x |-> x]
       \/ \E x \in RelationshipDicts : saved = [kind |-> "EntityRelationship", x |-> x]

FdEntity ==
    /\ saved.kind = "Entity"
    /\ last' = Op("Entity.from_dict", <<>>, saved.x, Entity_from_dict(saved.x), "")
    /\ UNCHANGED <<db, stores, saved, clean, deleted>>

FdEntityRelationship ==
    /\ saved.kind = "EntityRelationship"
    /\ last' = Op("EntityRelationship.from_dict", <<>>, saved.x,
                  EntityRelationship_from_dict(saved.x), "")
    /\ UNCHANGED <<db, stores, saved, clean, deleted>>

FdNext == FdEntity \/ FdEntityRelationship

SpecFromDict == FdInit /\ [][FdNext]_vars

\* from_dict was applied to a dict whose enum field holds no value of the enum.
UnknownEnumValue ==
    \/ /\ last.op = "Entity.from_dict"
       /\ "entity_type" \in DOMAIN last.arg
       /\ \A member \in EntityTypeMembers : EntityTypeValue(member) # last.arg.entity_type
    \/ /\ last.op = "EntityRelationship.from_dict"
       /\ "relation_type" \in DOMAIN last.arg
       /\ \A member \in RelationTypeMembers :
                RelationTypeValue(member) # last.arg.relation_type

\* The fields that from_dict reads before the enum field are there.
EarlierFieldsPresent ==
    \/ last.op = "Entity.from_dict" /\ {"id", "name"} \subseteq DOMAIN last.arg
    \/ /\ last.op = "EntityRelationship.from_dict"
       /\ {"source_id", "target_id"} \subseteq DOMAIN last.arg

\* C23 as stated: from_dict of a record whose entity_type or relation_type is
\* not one of the enumerated values fails with a validation error, and no
\* record object is produced.
C23_UnknownEnumIsValidationError ==
    UnknownEnumValue => last.status = "ValueError" /\ last.value = <<>>

\* C23: from_dict of a record whose entity_type or relation_type is not one
\* of the enumerated values produces no record object; it fails with a
\* validation error (ValueError) when the fields read before the enum field
\* (id and name, source_id and target_id) are present, and with KeyError for
\* the first of them that is missing.
C23_UnknownEnumFails ==
    UnknownEnumValue =>
        /\ last.value = <<>>
        /\ last.status = IF EarlierFieldsPresent THEN "ValueError" ELSE "KeyError"

\* The name of a member instead of its value was refused.
C23_Witness ==
    /\ UnknownEnumValue /\ last.status = "ValueError"
    /\ last.op = "Entity.from_dict" /\ last.arg.entity_type = "METHOD"

-----------------------------------------------------------------------------
(* Claims about keys made of illegal characters only.                      *)

\* The name of a file named after the hash of the key.
HashName(key) == sha256_hexdigest(key) \o <<".json">>

\* The record saved last under key k is read back and listed.
RoundTrips(k) ==
    /\ get(db, k) = Returned(saved[k])
    /\ list_keys(db).status = "ok"
    /\ k \in Range(list_keys(db).value)

\* C24 as stated: the key "///" round-trips through the Record Store (after
\* save(k, v), get(k) returns v and list_keys() contains k), and its file
\* is named after the hash of the key.
C24_SlashesUseHashName ==
    (saved[KeySlashes] # <<>> /\ clean[KeySlashes]) =>
        RoundTrips(KeySlashes) /\ exists(db, HashName(KeySlashes))

\* C24: the key "///" round-trips through the Record Store (after save(k, v),
\* get(k) returns v and list_keys() contains k); its file is named "___.json",
\* one placeholder per character, and only the empty key, which sanitizes to
\* the empty name, has a file named after the hash of the key.
C24_SlashesRoundTrip ==
    /\ (saved[KeySlashes] # <<>> /\ clean[KeySlashes]) =>
            /\ RoundTrips(KeySlashes)
            /\ exists(db, <<"_", "_", "_", ".json">>)
    /\ (saved[KeyEmpty] # <<>> /\ clean[KeyEmpty]) =>
            RoundTrips(KeyEmpty) /\ exists(db, HashName(KeyEmpty))
    /\ \A i \in 1..Len(db) :
            db[i].name \in {HashName(k) : k \in DbKeys} => db[i].name = HashName(KeyEmpty)

C24_Witness ==
    /\ last.op = "list_keys" /\ KeySlashes \in Range(last.value)
    /\ KeyEmpty \in Range(last.value)
    /\ saved[KeySlashes] # <<>> /\ clean[KeySlashes]
    /\ exists(db, <<"_", "_", "_", ".json">>) /\ exists(db, HashName(KeyEmpty))

-----------------------------------------------------------------------------
(* delete_entity and the three directories of the Entity Store.            *)

\* The store as EntityStore.__init__ lays it out: one LocalFileDB each for
\* entities, relationships and benchmarks.
EntityStore(ed, rd, bd) == [entities_db |-> ed, relationships_db |-> rd,
                            benchmarks_db |-> bd]

\* Whether the record of a file refers to entity_id.
RefersTo(file, entity_id) ==
    /\ file.content.parsable
    /\ \E f \in {"source_id", "target_id", "method_id"} \cap DOMAIN file.content.data :
            file.content.data[f] = entity_id

\* A delete_entity that also removes the relationships and the scores that
\* refer to the entity.
store_delete_entity_cascading(store, entity_id) ==
    [store |-> EntityStore(delete_entity(store.entities_db, entity_id).dir,
                   SelectSeq(store.relationships_db,
                             LAMBDA file : ~RefersTo(file, entity_id)),
                   SelectSeq(store.benchmarks_db,
                             LAMBDA file : ~RefersTo(file, entity_id))),
     out |-> delete_entity(store.entities_db, entity_id).out]

\* EntityStore.delete_entity on the whole store: the store afterwards and
\* the outcome.
store_delete_entity(store, entity_id) ==
    [store |-> EntityStore(delete_entity(store.entities_db, entity_id).dir,
                           store.relationships_db, store.benchmarks_db),
     out |-> delete_entity(store.entities_db, entity_id).out]

\* The entities that the relationships and scores refer to.
CascadeEntities ==
    { [id |-> i, name |-> NameRAG, entity_type |-> "METHOD", features |-> <<>>,
       metadata |-> <<>>, created_at |-> [second |-> 1, microsecond |-> 0]] :
        i \in {IdA, IdB} }

CasSaveEntity ==
    \E entity \in CascadeEntities :
        /\ \E pos \in Positions(entities_db, _filename(entity.id)) :
                entities_db' = save_entity(entities_db, entity, pos)
        /\ last' = Op("save_entity", entity.id, <<entity>>, Returned(None), "")
        /\ UNCHANGED <<db, relationships_db, benchmarks_db, saved, clean, deleted>>

CasSaveRelationship ==
    \E r \in Relationships :
        /\ HasRoom(relationships_db, _filename(rel_id(r)), Len(benchmarks_db),
                   MaxLinkFiles)
        /\ \E pos \in Positions(relationships_db, _filename(rel_id(r))) :
                relationships_db' = save_relationship(relationships_db, r, pos)
        /\ last' = Op("save_relationship", rel_id(r), <<r>>, Returned(None), "")
        /\ UNCHANGED <<db, entities_db, benchmarks_db, saved, clean, deleted>>

CasSaveBenchmarkScore ==
    \E s \in Scores :
        /\ HasRoom(benchmarks_db, _filename(score_id(s)), Len(relationships_db),
                   MaxLinkFiles)
        /\ \E pos \in Positions(benchmarks_db, _filename(score_id(s))) :
                benchmarks_db' = save_benchmark_score(benchmarks_db, s, pos)
        /\ last' = Op("save_benchmark_score", score_id(s), <<s>>, Returned(None), "")
        /\ UNCHANGED <<db, entities_db, relationships_db, saved, clean, deleted>>

\* delete_entity of a stored entity or of one that is not stored.
CasDeleteEntity ==
    \E entity \in CascadeEntities :
        LET r == store_delete_entity(
                    EntityStore(entities_db, relationships_db, benchmarks_db),
                    entity.id)
        IN  /\ entities_db' = r.store.entities_db
            /\ relationships_db' = r.store.relationships_db
            /\ benchmarks_db' = r.store.benchmarks_db
            /\ last' = Op("delete_entity", entity.id, <<>>, r.out, "")
            /\ UNCHANGED <<db, saved, clean, deleted>>

CasNext == CasSaveEntity \/ CasSaveRelationship \/ CasSaveBenchmarkScore \/ CasDeleteEntity

SpecDeleteEntity == LinkInit /\ [][CasNext]_vars

\* C25: delete_entity(id) does not cascade: it leaves every stored
\* relationship and every stored benchmark score unchanged, including those
\* whose source_id, target_id or method_id equals id, so get_relationships
\* and get_benchmark_scores return the same records before and after the
\* deletion.
C25_DeleteDoesNotCascade ==
    [][last'.op = "delete_entity" =>
        /\ relationships_db' = relationships_db
        /\ benchmarks_db' = benchmarks_db
        /\ \A s \in SourceFilters, t \in TargetFilters, r \in RelationFilters :
                get_relationships(relationships_db', s, t, r)
                    = get_relationships(relationships_db, s, t, r)
        /\ \A s \in SourceFilters, t \in TargetFilters, m \in MetricFilters :
                get_benchmark_scores(benchmarks_db', s, t, m)
                    = get_benchmark_scores(benchmarks_db, s, t, m)]_vars

\* A stored entity was deleted while a relationship and a score refer to it.
C25_Witness ==
    /\ last.op = "delete_entity" /\ last.status = "ok" /\ last.key = IdA
    /\ ~exists(entities_db, _filename(IdA))
    /\ \E i \in 1..Len(relationships_db) : RefersTo(relationships_db[i], IdA)
    /\ \E i \in 1..Len(benchmarks_db) : RefersTo(benchmarks_db[i], IdA)

-----------------------------------------------------------------------------
(* Two processes saving under one key.  LocalFileDB.save opens the file    *)
(* with mode "w", which truncates it, and the text json.dump produced is   *)
(* written at the process's own file offset when the file is closed; there *)
(* is no lock and no rename.  `db` is the one file, `saved` the position   *)
(* of each process, `clean` the data of the save that finished last.       *)

Writers == {"p1", "p2"}

\* The data saved, of different lengths once written.
WrittenData == {<<"1">>, <<"2", "2">>, <<"3", "3", "3">>}

\* The text json.dump writes for the payload of the key with data v.
json_dump(v) == <<"{">> \o v \o <<"}">>

\* json.load of a text: the data, or JSONDecodeError for a text that is not
\* one payload.
json_load(text) ==
    IF \E v \in WrittenData : json_dump(v) = text
    THEN Returned(<<CHOOSE v \in WrittenData : json_dump(v) = text>>)
    ELSE Raised("JSONDecodeError")

\* write(text) at offset 0 of a file: the bytes beyond the text stay.
write_at_start(file_text, text) ==
    text \o SubSeq(file_text, Len(text) + 1, Len(file_text))

\* LocalFileDB.get on the file of the key.
file_get(file) ==
    IF ~file.exists THEN Raised("KeyError") ELSE json_load(file.text)

RaceInit ==
    /\ db = [exists |-> FALSE, text |-> <<>>]
    /\ entities_db = <<>>
    /\ relationships_db = <<>>
    /\ benchmarks_db = <<>>
    /\ saved = [p \in Writers |-> [pc |-> "idle", data |-> <<>>]]
    /\ clean = <<>>
    /\ deleted = <<>>
    /\ last = NoOp

\* with open(path, "w") as f: the file exists and is empty.
RaceOpen ==
    \E p \in Writers, v \in WrittenData :
        /\ saved[p].pc = "idle"
        /\ db' = [exists |-> TRUE, text |-> <<>>]
        /\ saved' = [saved EXCEPT ![p] = [pc |-> "open", data |-> v]]
        /\ last' = Op("open", <<>>, <<v>>, Returned(None), p)
        /\ UNCHANGED <<stores, clean, deleted>>

\* json.dump and the end of the with block: the buffered text reaches the
\* file at offset 0 and save returns.
RaceWriteAndClose ==
    \E p \in Writers :
        /\ saved[p].pc = "open"
        /\ db' = [exists |-> TRUE,
                  text |-> write_at_start(db.text, json_dump(saved[p].data))]
        /\ saved' = [saved EXCEPT ![p] = [pc |-> "idle", data |-> <<>>]]
        /\ clean' = <<saved[p].data>>
        /\ last' = Op("save", <<>>, <<saved[p].data>>, Returned(None), p)
        /\ UNCHANGED <<stores, deleted>>

RaceGet ==
    /\ last' = Op("get", <<>>, <<>>, file_get(db), "")
    /\ UNCHANGED <<db, stores, saved, clean, deleted>>

RaceNext == RaceOpen \/ RaceWriteAndClose \/ RaceGet

SpecConcurrentSave == RaceInit /\ [][RaceNext]_vars

\* C26: concurrent writers to one key are last-write-wins: once the saves of
\* both processes have completed, get(k) returns the data of the save that
\* finished last, never a mixture and never an unreadable record.
C26_LastWriteWins ==
    (clean # <<>> /\ \A p \in Writers : saved[p].pc = "idle") =>
        file_get(db) = Returned(clean)

-----------------------------------------------------------------------------
(* Runner.run.  `db` is the call (the workflow's steps, initial_context and *)
(* the index of the next step of the for loop), `saved` the local context, *)
(* `clean` the local step_outputs, `deleted` the calls step functions have *)
(* received so far, each with the context it was given.                    *)

MaxSteps == 3

StepNames == {"s1", "s2", "s3"}

\* The step functions of the workflows: what each returns for a context.
StepFuncs == {"set_x", "next_x", "copy_x", "bad_step"}

DictResult(d) == [is_dict |-> TRUE, value |-> d]
NonDictResult == [is_dict |-> FALSE, value |-> <<>>]

\* step.func(ctx).
call_func(func, ctx) ==
    CASE func = "set_x"    -> DictResult([x |-> 1])
      [] func = "next_x"   -> DictResult([x |-> get_or(ctx, "x", 0) + 1])
      [] func = "copy_x"   -> DictResult([y |-> get_or(ctx, "x", 0)])
      [] func = "bad_step" -> NonDictResult

\* dict.update that keeps the value a key already has.
dict_update_keep(d, other) ==
    [k \in DOMAIN d \cup DOMAIN other |->
        IF k \in DOMAIN d THEN d[k] ELSE other[k]]

\* d.update(other): the keys of other overwrite those of d.
dict_update(d, other) ==
    [k \in DOMAIN d \cup DOMAIN other |->
        IF k \in DOMAIN other THEN other[k] ELSE d[k]]

\* outputs[name] = result on a dict that keeps insertion order.
dict_setitem(outputs, name, result) ==
    Dict(first_occurrences(Append(outputs.keys, name)),
         [k \in Range(outputs.keys) \cup {name} |->
            IF k = name THEN result ELSE outputs.rows[k]])

Steps == [name : StepNames, func : StepFuncs]

Workflows ==
    UNION {[1..n -> Steps] : n \in 0..MaxSteps}

InitialContexts == {None, <<[x |-> 5]>>, <<[y |-> 7]>>}

RunInit ==
    /\ \E steps \in Workflows, initial_context \in InitialContexts :
         db = [steps |-> steps, initial_context |-> initial_context, next |-> 0]
    /\ entities_db = <<>>
    /\ relationships_db = <<>>
    /\ benchmarks_db = <<>>
    /\ saved = <<>>
    /\ clean = EmptyDict
    /\ deleted = <<>>
    /\ last = NoOp

\* context = dict(initial_context or {}); step_outputs = {}
RunBegin ==
    /\ last.op = "init"
    /\ db' = [db EXCEPT !.next = 1]
    /\ saved' = IF db.initial_context = None THEN <<>>
                ELSE db.initial_context[1]
    /\ clean' = EmptyDict
    /\ last' = Op("begin", <<>>, <<>>, Returned(<<>>), "")
    /\ UNCHANGED <<stores, deleted>>

\* One iteration of `for step in workflow.steps`.
RunStep ==
    /\ last.op \in {"begin", "step"}
    /\ db.next <= Len(db.steps)
    /\ LET step == db.steps[db.next]
           result == call_func(step.func, saved)
       IN  /\ deleted' = Append(deleted, [name |-> step.name, context |-> saved])
           /\ IF ~result.is_dict
              THEN /\ last' = Op("run", <<>>, <<>>, Raised("TypeError"), "")
                   /\ UNCHANGED <<db, saved, clean>>
              ELSE /\ saved' = dict_update(saved, result.value)
                   /\ clean' = dict_setitem(clean, step.name, result.value)
                   /\ db' = [db EXCEPT !.next = db.next + 1]
                   /\ last' = Op("step", <<>>, <<>>, Returned(<<>>), "")
    /\ UNCHANGED stores

\* return {"context": context, "step_outputs": step_outputs}
RunReturn ==
    /\ last.op \in {"begin", "step"}
    /\ db.next = Len(db.steps) + 1
    /\ last' = Op("run", <<>>, <<>>,
                  Returned([context |-> saved, step_outputs |-> clean]), "")
    /\ UNCHANGED <<db, stores, saved, clean, deleted>>

RunNext == RunBegin \/ RunStep \/ RunReturn

SpecRunner == RunInit /\ [][RunNext]_vars

\* The context given at the start of the run.
GivenContext ==
    IF db.initial_context = None THEN <<>> ELSE db.initial_context[1]

\* The result of the i-th step of the list, as the i-th call produced it.
ResultOf(i) == call_func(db.steps[i].func, deleted[i].context).value

\* The steps before step i whose result holds key k.
WritersBefore(i, k) ==
    {j \in 1..(i - 1) : k \in DOMAIN ResultOf(j)}

\* The initial context merged with the results of the steps before step i,
\* a later result overwriting an earlier key.
MergedBefore(i) ==
    LET keys == DOMAIN GivenContext \cup
                UNION {DOMAIN ResultOf(j) : j \in 1..(i - 1)}
    IN  [k \in keys |->
            IF WritersBefore(i, k) = {} THEN GivenContext[k]
            ELSE LET j == CHOOSE w \in WritersBefore(i, k) :
                              \A o \in WritersBefore(i, k) : o <= w
                 IN  ResultOf(j)[k]]

\* The first step of the list that returns a non-dict, 0 when there is none.
FirstNonDict ==
    LET bad == {i \in 1..Len(db.steps) : db.steps[i].func = "bad_step"}
    IN  IF bad = {} THEN 0
        ELSE CHOOSE i \in bad : \A o \in bad : i <= o

StepNamesInOrder == [i \in 1..Len(db.steps) |-> db.steps[i].name]

\* Steps were called in list order, each with the merge of what came before.
CalledInOrder(n) ==
    /\ Len(deleted) = n
    /\ \A i \in 1..n :
         /\ deleted[i].name = db.steps[i].name
         /\ deleted[i].context = MergedBefore(i)

RunAborts ==
    /\ FirstNonDict # 0
    /\ last.status = "TypeError"
    /\ CalledInOrder(FirstNonDict)

RunReturnsContext ==
    /\ FirstNonDict = 0
    /\ last.status = "ok"
    /\ CalledInOrder(Len(db.steps))
    /\ last.value.context = MergedBefore(Len(db.steps) + 1)

AbortedRun ==
    /\ last.op = "run"
    /\ last.status = "TypeError"
    /\ Len(db.steps) = 3
    /\ db.steps[2].func = "bad_step"
    /\ Len(deleted) = 2

-----------------------------------------------------------------------------
(* Entity Store claims: the id of the entity get_entity returns.           *)

\* C28 as stated: whenever get_entity(I) returns an entity, that entity's id
\* equals I.
C28_GetEntityHasId ==
    \A id \in EntityIds :
        LET got == get_entity(entities_db, id)
        IN  (got.status = "ok" /\ got.value # None) => got.value[1].id = id

\* C28 amended: whenever get_entity(I) returns an entity, that entity's id
\* has the sanitized form of I, and it is I itself when no operation on
\* another id of the same sanitized form has touched the file since I was
\* saved; saving an entity under one id never changes what get_entity returns
\* for an id of a different sanitized form.
C28_GetEntityHasIdOfFile ==
    /\ [](\A id \in EntityIds :
            LET got == get_entity(entities_db, id)
            IN  (got.status = "ok" /\ got.value # None) =>
                    /\ _filename_safe(got.value[1].id) = _filename_safe(id)
                    /\ clean[id] => got.value[1].id = id)
    /\ [][last'.op = "save_entity" =>
            \A id \in {i \in EntityIds :
                        _filename_safe(i) # _filename_safe(last'.key)} :
                get_entity(entities_db', id) = get_entity(entities_db, id)]_vars

\* An entity was saved under one id while an entity of another name is
\* stored under an id of a different file, which get_entity still returns.
C28_Witness ==
    /\ last.op = "save_entity" /\ last.key = KeyAB_slash
    /\ saved[IdPlain] # <<>>
    /\ saved[IdPlain][1].name # last.arg[1].name
    /\ get_entity(entities_db, IdPlain) = Returned(saved[IdPlain])
    /\ get_entity(entities_db, KeyAB_slash).value[1].id = KeyAB_slash

-----------------------------------------------------------------------------
(* Relationships and scores whose ids hold the separator of the storage    *)
(* key.                                                                    *)

Id_a_b == <<"a", "_", "b">>
Id_b_c == <<"b", "_", "c">>
Id_a_uses_b == <<"a", "_", "u", "s", "e", "s", "_", "b">>
Id_b_uses_c == <<"b", "_", "u", "s", "e", "s", "_", "c">>

TripleRelationship(source_id, relation_type, target_id, confidence) ==
    [source_id |-> source_id, target_id |-> target_id,
     relation_type |-> relation_type, properties |-> <<>>,
     confidence |-> confidence,
     created_at |-> [second |-> 1, microsecond |-> 0]]

TripleRelationships ==
    { TripleRelationship(Id_a_uses_b, "USES", IdC, 100),
      TripleRelationship(IdA, "USES", Id_b_uses_c, 50),
      TripleRelationship(IdA, "USES", IdC, 100),
      TripleRelationship(IdA, "PART_OF", IdC, 100) }

TripleScore(method_id, benchmark_id, score) ==
    [method_id |-> method_id, benchmark_id |-> benchmark_id,
     metric_name |-> <<"f", "1">>, score |-> score, metadata |-> <<>>]

TripleScores ==
    { TripleScore(Id_a_b, IdC, 80),
      TripleScore(IdA, Id_b_c, 90),
      TripleScore(KeyAB_slash, IdC, 70),
      TripleScore(IdA, IdC, 80) }

TriSaveRelationship ==
    \E r \in TripleRelationships :
        /\ \E pos \in Positions(relationships_db, _filename(rel_id(r))) :
                relationships_db' = save_relationship(relationships_db, r, pos)
        /\ last' = Op("save_relationship", rel_id(r), <<r>>, Returned(None), "")
        /\ UNCHANGED <<db, entities_db, benchmarks_db, saved, clean, deleted>>

TriSaveBenchmarkScore ==
    \E s \in TripleScores :
        /\ \E pos \in Positions(benchmarks_db, _filename(score_id(s))) :
                benchmarks_db' = save_benchmark_score(benchmarks_db, s, pos)
        /\ last' = Op("save_benchmark_score", score_id(s), <<s>>, Returned(None), "")
        /\ UNCHANGED <<db, entities_db, relationships_db, saved, clean, deleted>>

TriGetRelationships ==
    /\ last' = Op("get_relationships", <<>>, <<None, None, None>>,
                  get_relationships(relationships_db, None, None, None), "")
    /\ UNCHANGED <<db, stores, saved, clean, deleted>>

TriGetBenchmarkScores ==
    /\ last' = Op("get_benchmark_scores", <<>>, <<None, None, None>>,
                  get_benchmark_scores(benchmarks_db, None, None, None), "")
    /\ UNCHANGED <<db, stores, saved, clean, deleted>>

TriNext ==
    TriSaveRelationship \/ TriSaveBenchmarkScore \/ TriGetRelationships
        \/ TriGetBenchmarkScores

SpecTripleKeys == LinkInit /\ [][TriNext]_vars

\* C29: the storage key of a relationship or of a benchmark score is distinct
\* for distinct triples: save_relationship and save_benchmark_score never
\* overwrite or hide a stored record whose identifying triple differs from
\* the one being saved.
C29_DistinctTriplesKeepApart ==
    [][ /\ last'.op = "save_relationship" =>
            \A r \in Range(get_relationships(relationships_db,
                                             None, None, None).value) :
                RelationshipTriple(r) # RelationshipTriple(last'.arg[1]) =>
                    r \in Range(get_relationships(relationships_db',
                                                  None, None, None).value)
        /\ last'.op = "save_benchmark_score" =>
            \A s \in Range(get_benchmark_scores(benchmarks_db,
                                                None, None, None).value) :
                ScoreTriple(s) # ScoreTriple(last'.arg[1]) =>
                    s \in Range(get_benchmark_scores(benchmarks_db',
                                                     None, None, None).value)
      ]_vars

-----------------------------------------------------------------------------
(* Feature matrices of entities and feature lists that use the name        *)
(* "entity_name".                                                          *)

MatrixEntity(id, name, features) ==
    [id |-> id, name |-> name, entity_type |-> "METHOD", features |-> features,
     metadata |-> <<>>, created_at |-> [second |-> 1, microsecond |-> 0]]

\* The entities saved: with no feature, with ordinary features, and with a
\* feature whose key is entity_name.
MatrixEntities ==
    { MatrixEntity(IdPlain, NameRAG, <<>>),
      MatrixEntity(IdPlain, NameRAG, [year |-> NumVal(<<"7">>)]),
      MatrixEntity(IdPlain, NameCol,
                   [entity_name |-> StrVal(<<"x">>), year |-> NumVal(<<"7">>)]),
      MatrixEntity(KeyAB_under, NameCol,
                   [desc |-> StrVal(<<"R", "a", "g">>), year |-> NumVal(<<"7">>)]),
      MatrixEntity(KeyAB_under, NameCol, [entity_name |-> StrVal(<<"x">>)]) }

MatrixIdLists ==
    { <<IdPlain, KeyAB_under>>, <<KeyAB_under, IdPlain, KeyAB_under>>,
      <<IdPlain>>, <<>> }

MatrixFeatureLists ==
    { None, <<<<"year">>>>, <<<<"year", "entity_name">>>>, <<<<>>>> }

MatSaveEntity ==
    \E entity \in MatrixEntities :
        /\ \E pos \in Positions(entities_db, _filename(entity.id)) :
                entities_db' = save_entity(entities_db, entity, pos)
        /\ last' = Op("save_entity", entity.id, <<entity>>, Returned(None), "")
        /\ UNCHANGED <<db, relationships_db, benchmarks_db, saved, clean, deleted>>

MatCompareEntitiesByFeatures ==
    \E ids \in MatrixIdLists, features \in MatrixFeatureLists :
        /\ last' = Op("compare_entities_by_features", <<>>,
                      [entity_ids |-> ids, features |-> features],
                      compare_entities_by_features(entities_db, ids, features), "")
        /\ UNCHANGED <<db, stores, saved, clean, deleted>>

MatNext == MatSaveEntity \/ MatCompareEntitiesByFeatures

SpecFeatureMatrix == FeatInit /\ [][MatNext]_vars

\* C30: every non-empty feature matrix has an entity_name row that holds
\* exactly the names of the compared entities in entity order, and every row
\* has exactly one value per compared entity, whatever feature keys the
\* entities carry and whatever feature list is supplied.
C30_EntityNameRow ==
    (last.op = "compare_entities_by_features"
        /\ last.value.feature_matrix # EmptyDict) =>
        LET m == last.value.feature_matrix
            ents == last.value.entities
        IN  /\ "entity_name" \in Range(m.keys)
            /\ m.rows["entity_name"] = [i \in 1..Len(ents) |-> StrVal(ents[i].name)]
            /\ \A k \in Range(m.keys) : Len(m.rows[k]) = Len(ents)

====
